---- MODULE Spec2Model ----
(***************************************************************************)
(* ureadahead trace-and-pack builder (src/src/trace.c).                    *)
(*                                                                         *)
(* The module models                                                       *)
(*   - the device / inode / range index filled by the filemap records      *)
(*     (trace_add_file_map, add_map, add_inode, add_device, find_device),  *)
(*   - the path normalizer (fix_path) and the path handler                 *)
(*     (read_path_trace with --path-prefix, ignore_path),                  *)
(*   - the pack assembler fed by the open records (read_path_trace,        *)
(*     trace_add_path, trace_file, trace_add_chunks, trace_add_extents),   *)
(*   - the range intersector (remove_untouched_blocks),                    *)
(*   - the post-processing (trace_add_groups, trace_sort_blocks,           *)
(*     trace_sort_paths),                                                  *)
(*   - the session controller (trace) with the tracer, the signals and the *)
(*     wait,                                                               *)
(*   - the drain (read_trace, read_trace_cb) with the events it finds,     *)
(*   - the descriptors and mappings of the path handler.                   *)
(*                                                                         *)
(* C arrays are sequences: element k of a C array is element k+1 here.     *)
(* A pointer into an array is the 1-based position, NULL is 0.             *)
(***************************************************************************)
EXTENDS Integers, Sequences, FiniteSets, Bags, TLC

VARIABLES
    device_hash,   \* read_trace_context.device_hash: bucket -> chain of device_data
    accessed,      \* history (SpecMap, SpecOrder): <<dev_t, ino>> -> pages the records named
    last,          \* history (SpecMap): how the last record met the ranges stored before it
    todo,          \* history (SpecOrder): calls recorded for the first inode, due for the second
    files,         \* trace (): the PackFile array, one element per device
    path_hash,     \* trace_add_path: the static hash of the path names seen
    inode_hash,    \* trace_add_path: the static hash of the dev_t/ino_t pairs seen
    force_ssd_mode,\* trace (): the option of the same name
    pc,            \* where trace () stands: "drain", "intersected", "next", ...
    wi,            \* trace (): 1-based index of the PackFile the write loop is at
    before,        \* history: the PackFile array as the intersector received it
    path_prefix_filter,  \* trace (): the option --path-prefix-filter, NULL when not given
    path_prefix,   \* trace (): the option --path-prefix, st_dev is NODEV when not given
    lastopen,      \* history (SpecOpen): what the last open record was and whether it added a path
    fixrun,        \* history (SpecFix): a string and the results of fix_path on it
    env,           \* the tracer and the signal dispositions trace () works on
    session,       \* trace (): its arguments, its locals and where it stands
    context,       \* read_trace: struct read_trace_context, an event that was not found is 0
    reader,        \* read_trace: where it stands, what it holds, how the last record went
    held,          \* the descriptors and mappings of the process, and how they were used
    call           \* a function of the program called on its own: its arguments and its
                   \* result; in the write loop the arguments of trace () it reads and
                   \* the log of what it did with each PackFile

indexvars == <<device_hash, accessed, last, todo>>

openvars == <<path_prefix_filter, path_prefix, lastopen, fixrun>>

ctlvars == <<env, session, context, reader, held, call>>

packvars == <<files, path_hash, inode_hash, force_ssd_mode, pc, wi, before,
              path_prefix_filter, path_prefix, lastopen, fixrun, env, session,
              context, reader, held, call>>

vars == <<device_hash, accessed, last, todo,
          files, path_hash, inode_hash, force_ssd_mode, pc, wi, before,
          path_prefix_filter, path_prefix, lastopen, fixrun, env, session,
              context, reader, held, call>>

----------------------------------------------------------------------------
(* Program constants                                                       *)

HASH_BITS == 16
HASH_SIZE == 2 ^ HASH_BITS
\* ((unsigned long)-1), as it reads once stored in the off_t start field
FILEMAP_START_MARK == -1
PAGE_SHIFT == 12
PAGE_SIZE == 2 ^ PAGE_SHIFT

----------------------------------------------------------------------------
(* Bounds of the model                                                     *)

\* page indexes carried by the filemap records are 0..MaxPage
MaxPage == 4
\* number of calls whose order is permuted (SpecOrder)
MaxCalls == 3

\* page indexes of the records for the other inodes (SpecMap)
MaxPageOther == 0

\* s_dev of the filemap records: (8,0) and (264,0), which share a hash bucket
SDevs == {8 * 1048576, 264 * 1048576}
Inos == {1, 2}
\* the (s_dev, i_ino) pairs the records name, each with its largest page index
Targets == {<<8 * 1048576, 1, MaxPage>>, <<8 * 1048576, 2, MaxPageOther>>,
            <<264 * 1048576, 1, MaxPageOther>>}

----------------------------------------------------------------------------
(* Helpers                                                                 *)

nih_min(a, b) == IF a < b THEN a ELSE b
nih_max(a, b) == IF a > b THEN a ELSE b

\* gnu_dev_makedev for a major below 2^12
makedev(major, minor) ==
    ((major % 4096) * 256) + (minor % 256) + ((minor \div 256) * 1048576)

\* read_filemap_trace: major = device >> 20, minor = device & 0xff
decode_dev(s_dev) == makedev(s_dev \div 1048576, s_dev % 256)

DevIds == {decode_dev(s) : s \in SDevs}

HashKey(id) == id % HASH_SIZE

Buckets == {HashKey(id) : id \in DevIds}

\* libc bsearch over the comparison results c[k] = compar(key, &base[k-1]):
\* the position of the element found, 0 for NULL
RECURSIVE bsearch_from(_, _, _)
bsearch_from(c, l, u) ==
    IF l >= u THEN 0
    ELSE LET idx == (l + u) \div 2
         IN IF c[idx + 1] < 0 THEN bsearch_from(c, l, idx)
            ELSE IF c[idx + 1] > 0 THEN bsearch_from(c, idx + 1, u)
            ELSE idx + 1

bsearch(c) == bsearch_from(c, 0, Len(c))

\* memmove-style insertion of x so that it becomes element pos of s
InsertAt(s, pos, x) == SubSeq(s, 1, pos - 1) \o <<x>> \o SubSeq(s, pos, Len(s))

----------------------------------------------------------------------------
(* Range index: the sorted file_map array of one inode                     *)

\* the meta element stored before the first element; its end is never set
FileMapMark == [start |-> FILEMAP_START_MARK]

MapAt(map, k) == IF k = 0 THEN FileMapMark ELSE map[k]

\* faulty variant of cmp_file_map: ranges that touch do not match
cmp_file_map_strict(a, b) ==
    IF a.end <= b.start THEN -1
    ELSE IF b.end <= a.start THEN 1 ELSE 0

\* faulty variant of cmp_file_map: the sign is reversed
cmp_file_map_reversed(a, b) ==
    IF a.end < b.start THEN 1
    ELSE IF b.end < a.start THEN -1 ELSE 0

cmp_file_map(a, b) ==
    IF a.end < b.start THEN -1
    ELSE IF b.end < a.start THEN 1 ELSE 0

\* compar (a, &map[k-1]) with b1 the element before b2
cmp_file_map_range(a, map, k) ==
    LET b2 == map[k]
        b1 == MapAt(map, k - 1)
    IN IF a.end < b2.start
       THEN IF b1.start = FILEMAP_START_MARK \/ a.start > b1.end THEN 0 ELSE -1
       ELSE 1

\* faulty variant of add_map: the new range goes to the end
add_map_append(map, index, last_index) ==
    map \o <<[start |-> index, end |-> last_index + 1]>>

add_map(map, index, last_index) ==
    LET new == [start |-> index, end |-> last_index + 1]
        key == new
    IN IF Len(map) = 0 THEN <<new>>
       ELSE IF Len(map) = 1
       THEN IF map[1].start > index THEN <<new, map[1]>> ELSE <<map[1], new>>
       ELSE LET found == bsearch([k \in 1..Len(map) |-> cmp_file_map_range(key, map, k)])
                pos == IF found # 0 THEN found ELSE Len(map) + 1
            IN InsertAt(map, pos, new)

\* the walk from the element found down to the first one that still matches the key
RECURSIVE lower_bound(_, _, _)
lower_bound(map, key, k) ==
    IF k - 1 >= 1 /\ cmp_file_map(map[k - 1], key) = 0
    THEN lower_bound(map, key, k - 1)
    ELSE k

RECURSIVE upper_bound(_, _, _)
upper_bound(map, key, k) ==
    IF k + 1 <= Len(map) /\ cmp_file_map(map[k + 1], key) = 0
    THEN upper_bound(map, key, k + 1)
    ELSE k

\* faulty variant of merge_maps: the end of the key replaces the end of the run
merge_maps_key_end(map, lower, upper, key) ==
    LET merged == [start |-> nih_min(map[lower].start, key.start),
                   end |-> key.end]
    IN SubSeq(map, 1, lower - 1) \o <<merged>> \o SubSeq(map, upper + 1, Len(map))

\* faulty variant of merge_maps: the merged maps are not removed
merge_maps_no_remove(map, lower, upper, key) ==
    [map EXCEPT ![lower] = [start |-> nih_min(map[lower].start, key.start),
                            end |-> nih_max(map[upper].end, key.end)]]

\* faulty variant of merge_maps: the first map of the run is removed as well
merge_maps_all_removed(map, lower, upper, key) ==
    SubSeq(map, 1, lower - 1) \o SubSeq(map, upper + 1, Len(map))

\* extend the first map of the run to the new range and remove the merged maps
merge_maps(map, lower, upper, key) ==
    LET merged == [start |-> nih_min(map[lower].start, key.start),
                   end |-> nih_max(map[upper].end, key.end)]
    IN IF lower = upper
       THEN [map EXCEPT ![lower] = merged]
       ELSE SubSeq(map, 1, lower - 1) \o <<merged>> \o SubSeq(map, upper + 1, Len(map))

\* the part of trace_add_file_map that works on the range array of the inode
insert_map(map, index, last_index) ==
    LET key == [start |-> index, end |-> last_index + 1]
        found == bsearch([k \in 1..Len(map) |-> cmp_file_map(key, map[k])])
    IN IF found = 0 THEN add_map(map, index, last_index)
       ELSE IF map[found].start <= key.start /\ map[found].end >= key.end THEN map
       ELSE merge_maps(map, lower_bound(map, key, found),
                       upper_bound(map, key, found), key)

----------------------------------------------------------------------------
(* Device hash and the sorted inode array of one device                    *)

cmp_inodes(a, b) == IF a < b THEN -1 ELSE IF a > b THEN 1 ELSE 0

\* faulty variant of cmp_inodes_range: the element before b2 is not looked at
cmp_inodes_range_any_larger(a, inodes, k) ==
    IF a < inodes[k].inode THEN 0 ELSE 1

\* compar (key, &inodes[k-1]) with b1 the element before b2
cmp_inodes_range(a, inodes, k) ==
    LET b2 == inodes[k].inode
        b1 == IF k = 1 THEN FILEMAP_START_MARK ELSE inodes[k - 1].inode
    IN IF a < b2
       THEN IF b1 = FILEMAP_START_MARK \/ a > b1 THEN 0 ELSE -1
       ELSE 1

find_inode(inodes, ino) ==
    bsearch([k \in 1..Len(inodes) |-> cmp_inodes(ino, inodes[k].inode)])

\* position at which add_inode stores the new inode
add_inode_pos(inodes, ino) ==
    IF Len(inodes) = 0 THEN 1
    ELSE IF Len(inodes) = 1
    THEN IF inodes[1].inode > ino THEN 1 ELSE 2
    ELSE LET found == bsearch([k \in 1..Len(inodes) |-> cmp_inodes_range(ino, inodes, k)])
         IN IF found # 0 THEN found ELSE Len(inodes) + 1

add_inode(inodes, ino) ==
    InsertAt(inodes, add_inode_pos(inodes, ino), [inode |-> ino, map |-> <<>>])

\* position of the device in the chain of its bucket, 0 for NULL
RECURSIVE find_in_chain(_, _, _)
find_in_chain(chain, id, k) ==
    IF k > Len(chain) THEN 0
    ELSE IF chain[k].id = id THEN k
    ELSE find_in_chain(chain, id, k + 1)

find_device(hash, id) == find_in_chain(hash[HashKey(id)], id, 1)

add_device(hash, id) ==
    [hash EXCEPT ![HashKey(id)] = <<[id |-> id, inodes |-> <<>>]>> \o @]

trace_add_file_map(hash, dev_id, ino, index, last_index) ==
    LET h1 == IF find_device(hash, dev_id) = 0 THEN add_device(hash, dev_id) ELSE hash
        d == IF find_device(hash, dev_id) = 0 THEN 1 ELSE find_device(hash, dev_id)
        dev == h1[HashKey(dev_id)][d]
        i == find_inode(dev.inodes, ino)
        inodes == IF i = 0 THEN add_inode(dev.inodes, ino) ELSE dev.inodes
        n == IF i = 0 THEN add_inode_pos(dev.inodes, ino) ELSE i
    IN [h1 EXCEPT ![HashKey(dev_id)][d].inodes =
            [inodes EXCEPT ![n].map = insert_map(@, index, last_index)]]

----------------------------------------------------------------------------
(* Views of the state used by the properties                               *)

\* the inode record of (dev_t id, ino), <<>> ranges when there is none
InodeMap(hash, id, ino) ==
    LET d == find_in_chain(hash[HashKey(id)], id, 1)
    IN IF d = 0 THEN <<>>
       ELSE LET inodes == hash[HashKey(id)][d].inodes
                hit == {k \in 1..Len(inodes) : inodes[k].inode = ino}
            IN IF hit = {} THEN <<>> ELSE inodes[CHOOSE k \in hit : TRUE].map

\* every range array held by the hash
AllMaps(hash) ==
    {hash[b][d].inodes[k].map :
        <<b, d, k>> \in {t \in Buckets \X (1..Cardinality(DevIds)) \X (1..Cardinality(Inos)) :
                            /\ t[2] <= Len(hash[t[1]])
                            /\ t[3] <= Len(hash[t[1]][t[2]].inodes)}}

CoveredPages(map) ==
    {p \in 0..(MaxPage + 1) : \E k \in 1..Len(map) : map[k].start <= p /\ p < map[k].end}

----------------------------------------------------------------------------
(* SpecMap: the filemap records reach the index in any order               *)

NoCalls == [calls |-> EmptyBag, issued |-> 0]

\* read_trace: the index is empty before the first record
EmptyIndex ==
    /\ device_hash = [b \in Buckets |-> <<>>]
    /\ accessed = [t \in DevIds \X Inos |-> {}]
    /\ last = [run |-> 0, contained |-> FALSE]
    /\ todo = NoCalls

NULL == "NULL"
\* a dev_t that is no device
NODEV == -1

\* struct path_prefix_option when --path-prefix is not given
NoPrefix == [st_dev |-> NODEV, prefix |-> <<>>]

\* no open record has been handled
NoOpen == [relative |-> FALSE, ignored |-> FALSE, seen |-> FALSE, grew |-> FALSE]

\* trace: no PackFile yet, nothing hashed
EmptyPack ==
    /\ files = <<>>
    /\ path_hash = {}
    /\ inode_hash = {}
    /\ pc = "drain"
    /\ wi = 0
    /\ before = <<>>

\* trace () has not been entered
NoSession ==
    /\ env = <<>>
    /\ session = <<>>
    /\ context = <<>>
    /\ reader = <<>>
    /\ held = <<>>
    /\ call = <<>>

\* trace: neither --path-prefix nor --path-prefix-filter is given
NoOptions ==
    /\ path_prefix_filter = NULL
    /\ path_prefix = NoPrefix

InitIndex ==
    /\ EmptyIndex
    /\ EmptyPack
    /\ NoSession
    /\ NoOptions
    /\ lastopen = NoOpen
    /\ fixrun = <<>>
    /\ force_ssd_mode = FALSE

\* positions of the stored ranges that the half-open key overlaps or touches
Run(map, key) ==
    {k \in 1..Len(map) : map[k].end >= key.start /\ key.end >= map[k].start}

ContainedIn(map, key) ==
    \E k \in 1..Len(map) : map[k].start <= key.start /\ key.end <= map[k].end

\* read_filemap_trace for a record (s_dev, i_ino, index, last_index)
filemap_record(s_dev, ino, index, last_index) ==
    /\ accessed' = [accessed EXCEPT ![<<decode_dev(s_dev), ino>>] = @ \cup (index..last_index)]
    /\ device_hash' = trace_add_file_map(device_hash, decode_dev(s_dev), ino,
                                         index, last_index)

read_filemap_trace(s_dev, ino, index, last_index) ==
    /\ filemap_record(s_dev, ino, index, last_index)
    /\ LET map == InodeMap(device_hash, decode_dev(s_dev), ino)
           key == [start |-> index, end |-> last_index + 1]
       IN last' = [run |-> Cardinality(Run(map, key)), contained |-> ContainedIn(map, key)]
    /\ UNCHANGED todo
    /\ UNCHANGED packvars

NextMap ==
    \E t \in Targets : \E index \in 0..t[3] : \E last_index \in index..t[3] :
        read_filemap_trace(t[1], t[2], index, last_index)

SpecMap == InitIndex /\ [][NextMap]_vars

----------------------------------------------------------------------------
\* C1: after any sequence of record_access calls, each inode's range array has
\* start < end in every range and a.end < b.start for adjacent ranges a, b
\* (sorted ascending, no overlap, no touching).
RangesNormal ==
    \A map \in AllMaps(device_hash) :
        /\ \A k \in 1..Len(map) : map[k].start < map[k].end
        /\ \A k \in 1..(Len(map) - 1) : map[k].end < map[k + 1].start

RangesNormalWitness ==
    \E map \in AllMaps(device_hash) : Len(map) >= 3

\* C2: a page lies in the union of the stored ranges of an inode iff an earlier
\* call named it in [first_index, last_index].
CoverageExact ==
    \A t \in DevIds \X Inos :
        CoveredPages(InodeMap(device_hash, t[1], t[2])) = accessed[t]

CoverageExactWitness ==
    /\ last.run >= 2
    /\ \E t \in DevIds \X Inos :
        /\ Len(InodeMap(device_hash, t[1], t[2])) = 2
        /\ Cardinality(accessed[t]) = 4

\* C4: a record whose range lies inside a stored range of its inode leaves the
\* whole device hash (that inode's array and count, every other inode and
\* device record) unchanged.
ContainedIsNoop ==
    [][\A t \in Targets : \A index \in 0..t[3] : \A last_index \in index..t[3] :
          (/\ read_filemap_trace(t[1], t[2], index, last_index)
           /\ ContainedIn(InodeMap(device_hash, decode_dev(t[1]), t[2]),
                          [start |-> index, end |-> last_index + 1]))
          => device_hash' = device_hash]_vars

ContainedIsNoopWitness ==
    /\ last.contained
    /\ \E map \in AllMaps(device_hash) : Len(map) >= 3
    /\ Cardinality({t \in DevIds \X Inos : accessed[t] # {}}) = 3

\* C5: a record whose key overlaps or touches the stored ranges lo..hi replaces
\* that run by [min(lo.start, key.start), max(hi.end, key.end)); the ranges
\* before and after the run keep their values and order, so the count drops by
\* the length of the run minus one; every other inode is unchanged.
MergedRun(map, key) ==
    LET run == Run(map, key)
        lo == CHOOSE k \in run : \A j \in run : k <= j
        hi == CHOOSE k \in run : \A j \in run : k >= j
    IN SubSeq(map, 1, lo - 1)
         \o <<[start |-> nih_min(map[lo].start, key.start),
               end |-> nih_max(map[hi].end, key.end)]>>
         \o SubSeq(map, hi + 1, Len(map))

RunIsMerged ==
    [][\A t \in Targets : \A index \in 0..t[3] : \A last_index \in index..t[3] :
          LET dev == decode_dev(t[1])
              map == InodeMap(device_hash, dev, t[2])
              key == [start |-> index, end |-> last_index + 1]
          IN (read_filemap_trace(t[1], t[2], index, last_index) /\ Run(map, key) # {})
             => /\ InodeMap(device_hash', dev, t[2]) = MergedRun(map, key)
                /\ Len(InodeMap(device_hash', dev, t[2]))
                     = Len(map) - (Cardinality(Run(map, key)) - 1)
                /\ \A o \in DevIds \X Inos :
                     o # <<dev, t[2]>>
                     => InodeMap(device_hash', o[1], o[2]) = InodeMap(device_hash, o[1], o[2])]_vars

RunIsMergedWitness ==
    /\ last.run >= 3
    /\ ~last.contained

----------------------------------------------------------------------------
(* SpecOrder: two inodes of one device receive the same calls, each in its *)
(* own order                                                               *)

OrderDev == 8 * 1048576

\* a record for the first inode; the same call is still due for the second
RecordFirst(index, last_index) ==
    /\ todo.issued < MaxCalls
    /\ filemap_record(OrderDev, 1, index, last_index)
    /\ todo' = [calls |-> todo.calls (+) SetToBag({<<index, last_index>>}),
                issued |-> todo.issued + 1]
    /\ UNCHANGED last
    /\ UNCHANGED packvars

\* a record for the second inode, any of the calls still due
RecordSecond(c) ==
    /\ BagIn(c, todo.calls)
    /\ filemap_record(OrderDev, 2, c[1], c[2])
    /\ todo' = [todo EXCEPT !.calls = @ (-) SetToBag({c})]
    /\ UNCHANGED last
    /\ UNCHANGED packvars

NextOrder ==
    \/ \E index \in 0..MaxPage : \E last_index \in index..MaxPage :
          RecordFirst(index, last_index)
    \/ \E index \in 0..MaxPage : \E last_index \in index..MaxPage :
          RecordSecond(<<index, last_index>>)

SpecOrder == InitIndex /\ [][NextOrder]_vars

\* C3: once two inodes have received the same multiset of calls, whatever the
\* two orders were, their range arrays are equal (same count, same values).
OrderIndependent ==
    todo.calls = EmptyBag
    => InodeMap(device_hash, decode_dev(OrderDev), 1)
         = InodeMap(device_hash, decode_dev(OrderDev), 2)

OrderIndependentWitness ==
    /\ todo.calls = EmptyBag
    /\ todo.issued = MaxCalls
    /\ Len(InodeMap(device_hash, decode_dev(OrderDev), 2)) = 2
    /\ Cardinality(accessed[<<decode_dev(OrderDev), 2>>]) = 4

----------------------------------------------------------------------------
(* Path names: sequences of characters                                     *)

\* the characters of the model in ascending order of their codes
Chars == <<".", "/", "a", "b", "c", "d", "e", "g", "k", "l", "m", "n", "o",
           "p", "r", "s", "t", "u", "v", "x", "y">>

Code(c) == CHOOSE k \in 1..Len(Chars) : Chars[k] = c

RECURSIVE strcmp(_, _)
strcmp(a, b) ==
    IF a = <<>> /\ b = <<>> THEN 0
    ELSE IF a = <<>> THEN -1
    ELSE IF b = <<>> THEN 1
    ELSE IF Head(a) = Head(b) THEN strcmp(Tail(a), Tail(b))
    ELSE Code(Head(a)) - Code(Head(b))

\* pathname[0] == '/'
Absolute(s) == s # <<>> /\ s[1] = "/"

\* ! strncmp (pathname, prefix, strlen (prefix))
has_prefix(pathname, prefix) ==
    /\ Len(pathname) >= Len(prefix)
    /\ SubSeq(pathname, 1, Len(prefix)) = prefix

\* strcspn (s + p - 1, "/"): the characters from position p up to the next '/'
strcspn(s, p) ==
    LET stops == {k \in p..Len(s) : s[k] = "/"}
    IN IF stops = {} THEN nih_max(Len(s) - p + 1, 0)
       ELSE (CHOOSE k \in stops : \A j \in stops : k <= j) - p

\* memmove of the tail over the characters from..to
cut(s, from, to) == SubSeq(s, 1, from - 1) \o SubSeq(s, to + 1, Len(s))

\* faulty variant of find_root: the walk back goes to the start of the string
find_root_start(s, k) == 0

\* the walk back from position k to the previous '/', 0 when it leaves the string
RECURSIVE find_root(_, _)
find_root(s, k) ==
    IF k >= 1 /\ s[k] # "/" THEN find_root(s, k - 1) ELSE k

\* the final loop: trailing '/' characters are overwritten by NUL
RECURSIVE fix_path_strip(_, _)
fix_path_strip(s, p) ==
    IF p # 1 /\ s[p - 1] = "/"
    THEN fix_path_strip(SubSeq(s, 1, p - 2), p - 1)
    ELSE s

\* the for loop of fix_path with ptr at position p; the iterations that
\* only step over a character other than '/' are taken in one go
RECURSIVE fix_path_loop(_, _)
fix_path_loop(s, p) ==
    IF p > Len(s) THEN fix_path_strip(s, p)
    ELSE IF s[p] # "/" THEN fix_path_loop(s, p + strcspn(s, p))
    ELSE LET len == strcspn(s, p + 1)
         IN IF len = 0 \/ (len = 1 /\ s[p + 1] = ".")
            THEN fix_path_loop(cut(s, p, p + len), p)
            ELSE IF len = 2 /\ s[p + 1] = "." /\ s[p + 2] = "."
            THEN LET back == find_root(s, p - 1)
                     root == IF back < 1 THEN 1 ELSE back
                 IN fix_path_loop(cut(s, root, p + len), root)
            ELSE fix_path_loop(s, p + 1)

\* faulty variant of fix_path: after a memmove the loop goes on behind the
\* new '/' instead of looking at it again
RECURSIVE fix_path_loop_no_repeat(_, _)
fix_path_loop_no_repeat(s, p) ==
    IF p > Len(s) THEN fix_path_strip(s, Len(s) + 1)
    ELSE IF s[p] # "/" THEN fix_path_loop_no_repeat(s, p + 1)
    ELSE LET len == strcspn(s, p + 1)
         IN IF len = 0 \/ (len = 1 /\ s[p + 1] = ".")
            THEN fix_path_loop_no_repeat(cut(s, p, p + len), p + 1)
            ELSE IF len = 2 /\ s[p + 1] = "." /\ s[p + 2] = "."
            THEN LET back == find_root(s, p - 1)
                     root == IF back < 1 THEN 1 ELSE back
                 IN fix_path_loop_no_repeat(cut(s, root, p + len), root + 1)
            ELSE fix_path_loop_no_repeat(s, p + 1)

fix_path_no_repeat(pathname) == fix_path_loop_no_repeat(pathname, 1)

fix_path(pathname) == fix_path_loop(pathname, 1)

ignore_path(pathname) ==
    \/ has_prefix(pathname, <<"/", "p", "r", "o", "c", "/">>)
    \/ has_prefix(pathname, <<"/", "s", "y", "s", "/">>)
    \/ has_prefix(pathname, <<"/", "d", "e", "v", "/">>)
    \/ has_prefix(pathname, <<"/", "t", "m", "p", "/">>)
    \/ has_prefix(pathname, <<"/", "r", "u", "n", "/">>)
    \/ has_prefix(pathname, <<"/", "v", "a", "r", "/", "r", "u", "n", "/">>)
    \/ has_prefix(pathname, <<"/", "v", "a", "r", "/", "l", "o", "g", "/">>)
    \/ has_prefix(pathname, <<"/", "v", "a", "r", "/", "l", "o", "c", "k", "/">>)

----------------------------------------------------------------------------
(* The file system the open records refer to                               *)

\* pages of the largest file
MaxFilePages == 3
\* ext2 super block of the device: inodes per group, number of groups
InodesPerGroup == 1
NumGroups == 2

PACK_PATH_MAX == 255

\* file system block: extents start and end on multiples of it
FsBlock == PAGE_SIZE \div 2

\* st_dev of the disk, the device (8,0) of the filemap records
DiskDev == decode_dev(8 * 1048576)

\* st_dev of a second disk, the device (264,0)
OtherDev == decode_dev(264 * 1048576)

\* st_dev of a tmpfs, the device (0,35)
TmpDev == makedev(0, 35)

\* the absolute path name of n characters /aaa...
LongName(n) == <<"/">> \o SubSeq([i \in 1..n |-> "a"], 2, n)

\* what lstat and fstat say of the path names that exist: /c is a second
\* link to the inode of /b, /e is empty, /d lies on the second disk and has
\* the inode number of /b, /tmp/x lies in a tmpfs, /m/tmp/x is what the
\* prefix /m makes of /tmp/x, and two files have names of PACK_PATH_MAX and
\* PACK_PATH_MAX + 1 characters
Disk ==
    {[path |-> <<"/", "a">>, st_dev |-> DiskDev, st_ino |-> 2, reg |-> TRUE,
      st_size |-> MaxFilePages * PAGE_SIZE],
     [path |-> <<"/", "b">>, st_dev |-> DiskDev, st_ino |-> 1, reg |-> TRUE,
      st_size |-> FsBlock + 1],
     [path |-> <<"/", "c">>, st_dev |-> DiskDev, st_ino |-> 1, reg |-> TRUE,
      st_size |-> FsBlock + 1],
     [path |-> <<"/", "e">>, st_dev |-> DiskDev, st_ino |-> 3, reg |-> TRUE,
      st_size |-> 0],
     [path |-> <<"/", "d">>, st_dev |-> OtherDev, st_ino |-> 1, reg |-> TRUE,
      st_size |-> PAGE_SIZE],
     [path |-> <<"/", "t", "m", "p", "/", "x">>, st_dev |-> TmpDev, st_ino |-> 2,
      reg |-> TRUE, st_size |-> PAGE_SIZE],
     [path |-> <<"/", "m", "/", "t", "m", "p", "/", "x">>, st_dev |-> DiskDev,
      st_ino |-> 4, reg |-> TRUE, st_size |-> PAGE_SIZE],
     [path |-> LongName(PACK_PATH_MAX), st_dev |-> DiskDev, st_ino |-> 5,
      reg |-> TRUE, st_size |-> PAGE_SIZE],
     [path |-> LongName(PACK_PATH_MAX + 1), st_dev |-> DiskDev, st_ino |-> 6,
      reg |-> TRUE, st_size |-> PAGE_SIZE]}

Exists(pathname) == \E f \in Disk : f.path = pathname

lstat(pathname) == CHOOSE f \in Disk : f.path = pathname

\* st_dev of a solid state disk, the device (259,0)
SsdDev == makedev(259, 0)

\* what get_value reads in /sys/dev/block/MAJ:MIN/queue/rotational: 1 for a
\* disk, 0 for a solid state disk, and -1 for a device without the attribute
QueueRotational(dev) ==
    IF dev = SsdDev THEN 0
    ELSE IF dev = TmpDev THEN -1
    ELSE 1

\* rotational of trace_file when the force flag is not set
SysfsRotational(dev) ==
    IF QueueRotational(dev) < 0 THEN TRUE ELSE QueueRotational(dev) # 0

\* the extent maps FS_IOC_FIEMAP can report for an inode: the large file in
\* one extent, in two extents that meet in the middle of its last page and lie
\* in descending physical order, or with a tail that is not allocated yet
Layouts(ino) ==
    IF ino = 2
    THEN {<<[fe_logical |-> 0, fe_length |-> MaxFilePages * PAGE_SIZE,
             fe_physical |-> 16 * PAGE_SIZE, unknown |-> FALSE]>>,
          <<[fe_logical |-> 0, fe_length |-> (MaxFilePages - 1) * PAGE_SIZE + FsBlock,
             fe_physical |-> 16 * PAGE_SIZE, unknown |-> FALSE],
            [fe_logical |-> (MaxFilePages - 1) * PAGE_SIZE + FsBlock,
             fe_length |-> FsBlock,
             fe_physical |-> 2 * PAGE_SIZE, unknown |-> FALSE]>>,
          <<[fe_logical |-> 0, fe_length |-> PAGE_SIZE,
             fe_physical |-> 16 * PAGE_SIZE, unknown |-> FALSE],
            [fe_logical |-> PAGE_SIZE, fe_length |-> (MaxFilePages - 1) * PAGE_SIZE,
             fe_physical |-> 0, unknown |-> TRUE]>>}
    ELSE {<<[fe_logical |-> 0, fe_length |-> PAGE_SIZE,
             fe_physical |-> 12 * PAGE_SIZE, unknown |-> FALSE]>>}

\* num_pages of trace_add_chunks
NumPages(size) == ((size - 1) \div PAGE_SIZE) + 1

----------------------------------------------------------------------------
(* Pack assembler                                                          *)

\* position in files of the PackFile of the device, 0 when there is none
RECURSIVE file_of_dev(_, _, _)
file_of_dev(fs, dev, i) ==
    IF i > Len(fs) THEN 0
    ELSE IF fs[i].dev = dev THEN i
    ELSE file_of_dev(fs, dev, i + 1)

\* faulty variant of trace_file: only the PackFile made last is looked at
trace_file_last(fs, dev, force_ssd) ==
    IF Len(fs) > 0 /\ fs[Len(fs)].dev = dev THEN fs
    ELSE Append(fs, [dev |-> dev,
                     rotational |-> IF force_ssd THEN FALSE ELSE SysfsRotational(dev),
                     paths |-> <<>>, blocks |-> <<>>, groups |-> <<>>])

trace_file(fs, dev, force_ssd) ==
    IF file_of_dev(fs, dev, 1) # 0 THEN fs
    ELSE Append(fs, [dev |-> dev,
                     rotational |-> IF force_ssd THEN FALSE ELSE SysfsRotational(dev),
                     paths |-> <<>>, blocks |-> <<>>, groups |-> <<>>])

\* the extents of the map that FS_IOC_FIEMAP reports for the range
get_fiemap(extents, offset, length) ==
    SelectSeq(extents, LAMBDA e : /\ e.fe_logical < offset + length
                                  /\ offset < e.fe_logical + e.fe_length)

\* faulty variant of trace_add_extents: FIEMAP_EXTENT_UNKNOWN is not looked at
trace_add_extents_unknown(file, extents, offset, length) ==
    LET fiemap == get_fiemap(extents, offset, length)
        block(e) ==
            LET start == nih_max(offset, e.fe_logical)
                end == nih_min(offset + length, e.fe_logical + e.fe_length)
            IN [pathidx |-> Len(file.paths) - 1,
                offset |-> start,
                length |-> end - start,
                physical |-> e.fe_physical + (start - e.fe_logical)]
    IN [file EXCEPT !.blocks = @ \o [j \in 1..Len(fiemap) |-> block(fiemap[j])]]

\* faulty variant of trace_add_extents: the new blocks go to the front
trace_add_extents_front(file, extents, offset, length) ==
    LET fiemap == get_fiemap(extents, offset, length)
        known == SelectSeq(fiemap, LAMBDA e : ~e.unknown)
        block(e) ==
            LET start == nih_max(offset, e.fe_logical)
                end == nih_min(offset + length, e.fe_logical + e.fe_length)
            IN [pathidx |-> Len(file.paths) - 1,
                offset |-> start,
                length |-> end - start,
                physical |-> e.fe_physical + (start - e.fe_logical)]
    IN [file EXCEPT !.blocks = [j \in 1..Len(known) |-> block(known[j])] \o @]

trace_add_extents(file, extents, offset, length) ==
    LET fiemap == get_fiemap(extents, offset, length)
        known == SelectSeq(fiemap, LAMBDA e : ~e.unknown)
        block(e) ==
            LET start == nih_max(offset, e.fe_logical)
                end == nih_min(offset + length, e.fe_logical + e.fe_length)
            IN [pathidx |-> Len(file.paths) - 1,
                offset |-> start,
                length |-> end - start,
                physical |-> e.fe_physical + (start - e.fe_logical)]
    IN [file EXCEPT !.blocks = @ \o [j \in 1..Len(known) |-> block(known[j])]]

\* faulty variant of chunk_end: every chunk is one page
chunk_end_one_page(vec, num_pages, i) == i

\* the last page of the run of resident pages that starts at page i
RECURSIVE chunk_end(_, _, _)
chunk_end(vec, num_pages, i) ==
    IF (i + 1) < num_pages /\ (i + 1) \in vec
    THEN chunk_end(vec, num_pages, i + 1)
    ELSE i

\* faulty variant of trace_add_chunk: pathidx is num_paths
trace_add_chunk_next_idx(file, extents, offset, length) ==
    IF file.rotational
    THEN trace_add_extents(file, extents, offset, length)
    ELSE [file EXCEPT !.blocks = Append(@, [pathidx |-> Len(file.paths),
                                            offset |-> offset,
                                            length |-> length,
                                            physical |-> -1])]

\* the body of the loop of trace_add_chunks for one chunk
trace_add_chunk(file, extents, offset, length) ==
    IF file.rotational
    THEN trace_add_extents(file, extents, offset, length)
    ELSE [file EXCEPT !.blocks = Append(@, [pathidx |-> Len(file.paths) - 1,
                                            offset |-> offset,
                                            length |-> length,
                                            physical |-> -1])]

\* the loop of trace_add_chunks from page i on; vec is the set of resident pages
RECURSIVE trace_add_chunks_from(_, _, _, _, _)
trace_add_chunks_from(file, vec, num_pages, extents, i) ==
    IF i >= num_pages THEN file
    ELSE IF i \notin vec
    THEN trace_add_chunks_from(file, vec, num_pages, extents, i + 1)
    ELSE LET j == chunk_end(vec, num_pages, i)
         IN trace_add_chunks_from(
                trace_add_chunk(file, extents, i * PAGE_SIZE, (j - i + 1) * PAGE_SIZE),
                vec, num_pages, extents, j + 1)

trace_add_chunks(file, size, vec, extents) ==
    trace_add_chunks_from(file, vec, NumPages(size), extents, 0)

\* what the calls of trace_add_path into the system return:
\*   "stat"  lstat, open or fstat fails, or the path is not a regular file
\*   "mmap"  mmap, mincore or munmap fails
\*   "ok"    none fails; vec and extents are what mincore and FIEMAP report
Outcomes == {"ok", "stat", "mmap"}

\* faulty variant of trace_add_path: ignore_path is not asked
trace_add_path_no_ignore(st, pathname, force_ssd, outcome, vec, extents) ==
    IF \/ pathname = <<>>
       \/ pathname[1] # "/"
       \/ Len(pathname) > PACK_PATH_MAX
       \/ pathname \in st.path_hash
    THEN st
    ELSE LET hashed == [st EXCEPT !.path_hash = @ \cup {pathname}]
         IN IF outcome = "stat" \/ ~Exists(pathname) \/ ~lstat(pathname).reg
            THEN hashed
            ELSE LET statbuf == lstat(pathname)
                     fs == trace_file(st.files, statbuf.st_dev, force_ssd)
                     f == file_of_dev(fs, statbuf.st_dev, 1)
                     path == [group |-> -1, ino |-> statbuf.st_ino, path |-> pathname]
                     file == [fs[f] EXCEPT !.paths = Append(@, path)]
                     inode_key == <<statbuf.st_dev, statbuf.st_ino>>
                 IN IF inode_key \in st.inode_hash
                    THEN [hashed EXCEPT !.files = [fs EXCEPT ![f] = file]]
                    ELSE [files |-> [fs EXCEPT ![f] =
                                        IF statbuf.st_size = 0 \/ outcome = "mmap"
                                        THEN file
                                        ELSE trace_add_chunks(file, statbuf.st_size,
                                                              vec, extents)],
                          path_hash |-> hashed.path_hash,
                          inode_hash |-> st.inode_hash \cup {inode_key}]

\* faulty variant of trace_add_path: the path name is not looked up in path_hash
trace_add_path_no_path_hash(st, pathname, force_ssd, outcome, vec, extents) ==
    IF \/ pathname = <<>>
       \/ pathname[1] # "/"
       \/ ignore_path(pathname)
       \/ Len(pathname) > PACK_PATH_MAX
    THEN st
    ELSE LET hashed == [st EXCEPT !.path_hash = @ \cup {pathname}]
         IN IF outcome = "stat" \/ ~Exists(pathname) \/ ~lstat(pathname).reg
            THEN hashed
            ELSE LET statbuf == lstat(pathname)
                     fs == trace_file(st.files, statbuf.st_dev, force_ssd)
                     f == file_of_dev(fs, statbuf.st_dev, 1)
                     path == [group |-> -1, ino |-> statbuf.st_ino, path |-> pathname]
                     file == [fs[f] EXCEPT !.paths = Append(@, path)]
                     inode_key == <<statbuf.st_dev, statbuf.st_ino>>
                 IN IF inode_key \in st.inode_hash
                    THEN [hashed EXCEPT !.files = [fs EXCEPT ![f] = file]]
                    ELSE [files |-> [fs EXCEPT ![f] =
                                        IF statbuf.st_size = 0 \/ outcome = "mmap"
                                        THEN file
                                        ELSE trace_add_chunks(file, statbuf.st_size,
                                                              vec, extents)],
                          path_hash |-> hashed.path_hash,
                          inode_hash |-> st.inode_hash \cup {inode_key}]

\* faulty variant of trace_add_path: the inode is not looked up in inode_hash
trace_add_path_no_inode_hash(st, pathname, force_ssd, outcome, vec, extents) ==
    IF \/ pathname = <<>>
       \/ pathname[1] # "/"
       \/ ignore_path(pathname)
       \/ Len(pathname) > PACK_PATH_MAX
       \/ pathname \in st.path_hash
    THEN st
    ELSE LET hashed == [st EXCEPT !.path_hash = @ \cup {pathname}]
         IN IF outcome = "stat" \/ ~Exists(pathname) \/ ~lstat(pathname).reg
            THEN hashed
            ELSE LET statbuf == lstat(pathname)
                     fs == trace_file(st.files, statbuf.st_dev, force_ssd)
                     f == file_of_dev(fs, statbuf.st_dev, 1)
                     path == [group |-> -1, ino |-> statbuf.st_ino, path |-> pathname]
                     file == [fs[f] EXCEPT !.paths = Append(@, path)]
                     inode_key == <<statbuf.st_dev, statbuf.st_ino>>
                 IN IF FALSE
                    THEN [hashed EXCEPT !.files = [fs EXCEPT ![f] = file]]
                    ELSE [files |-> [fs EXCEPT ![f] =
                                        IF statbuf.st_size = 0 \/ outcome = "mmap"
                                        THEN file
                                        ELSE trace_add_chunks(file, statbuf.st_size,
                                                              vec, extents)],
                          path_hash |-> hashed.path_hash,
                          inode_hash |-> st.inode_hash \cup {inode_key}]

\* faulty variant of trace_add_path: an empty file is left before its path
\* is appended
trace_add_path_size_first(st, pathname, force_ssd, outcome, vec, extents) ==
    IF \/ pathname = <<>>
       \/ pathname[1] # "/"
       \/ ignore_path(pathname)
       \/ Len(pathname) > PACK_PATH_MAX
       \/ pathname \in st.path_hash
    THEN st
    ELSE LET hashed == [st EXCEPT !.path_hash = @ \cup {pathname}]
         IN IF outcome = "stat" \/ ~Exists(pathname) \/ ~lstat(pathname).reg
            THEN hashed
            ELSE LET statbuf == lstat(pathname)
                     fs == trace_file(st.files, statbuf.st_dev, force_ssd)
                     f == file_of_dev(fs, statbuf.st_dev, 1)
                     path == [group |-> -1, ino |-> statbuf.st_ino, path |-> pathname]
                     file == [fs[f] EXCEPT !.paths = Append(@, path)]
                     inode_key == <<statbuf.st_dev, statbuf.st_ino>>
                 IN IF statbuf.st_size = 0 THEN hashed
                    ELSE IF inode_key \in st.inode_hash
                    THEN [hashed EXCEPT !.files = [fs EXCEPT ![f] = file]]
                    ELSE [files |-> [fs EXCEPT ![f] =
                                        IF statbuf.st_size = 0 \/ outcome = "mmap"
                                        THEN file
                                        ELSE trace_add_chunks(file, statbuf.st_size,
                                                              vec, extents)],
                          path_hash |-> hashed.path_hash,
                          inode_hash |-> st.inode_hash \cup {inode_key}]

\* st is the record of files, path_hash and inode_hash
trace_add_path(st, pathname, force_ssd, outcome, vec, extents) ==
    IF \/ pathname = <<>>
       \/ pathname[1] # "/"
       \/ ignore_path(pathname)
       \/ Len(pathname) > PACK_PATH_MAX
       \/ pathname \in st.path_hash
    THEN st
    ELSE LET hashed == [st EXCEPT !.path_hash = @ \cup {pathname}]
         IN IF outcome = "stat" \/ ~Exists(pathname) \/ ~lstat(pathname).reg
            THEN hashed
            ELSE LET statbuf == lstat(pathname)
                     fs == trace_file(st.files, statbuf.st_dev, force_ssd)
                     f == file_of_dev(fs, statbuf.st_dev, 1)
                     path == [group |-> -1, ino |-> statbuf.st_ino, path |-> pathname]
                     file == [fs[f] EXCEPT !.paths = Append(@, path)]
                     inode_key == <<statbuf.st_dev, statbuf.st_ino>>
                 IN IF inode_key \in st.inode_hash
                    THEN [hashed EXCEPT !.files = [fs EXCEPT ![f] = file]]
                    ELSE [files |-> [fs EXCEPT ![f] =
                                        IF statbuf.st_size = 0 \/ outcome = "mmap"
                                        THEN file
                                        ELSE trace_add_chunks(file, statbuf.st_size,
                                                              vec, extents)],
                          path_hash |-> hashed.path_hash,
                          inode_hash |-> st.inode_hash \cup {inode_key}]

----------------------------------------------------------------------------
(* Range intersector                                                       *)

\* inode->map of the inode of the device, <<>> where the lookup gives NULL
inode_maps(hash, dev, ino) ==
    LET d == find_device(hash, dev)
        i == IF d = 0 THEN 0 ELSE find_inode(hash[HashKey(dev)][d].inodes, ino)
    IN IF i = 0 THEN <<>> ELSE hash[HashKey(dev)][d].inodes[i].map

\* ! dev || ! inode
inode_missing(hash, dev, ino) ==
    LET d == find_device(hash, dev)
    IN d = 0 \/ find_inode(hash[HashKey(dev)][d].inodes, ino) = 0

block_range_of(block) ==
    [start |-> block.offset \div PAGE_SIZE,
     end |-> (block.offset + block.length) \div PAGE_SIZE]

\* skip filemaps until one overlaps the block; filemapidx counts from 0
RECURSIVE skip_filemaps(_, _, _)
skip_filemaps(maps, filemapidx, block_range) ==
    IF filemapidx < Len(maps) /\ cmp_file_map(maps[filemapidx + 1], block_range) < 0
    THEN skip_filemaps(maps, filemapidx + 1, block_range)
    ELSE filemapidx

\* the block cut down to the range
reduced_block(block, range) ==
    LET new_offset == nih_max(range.start * PAGE_SIZE, block.offset)
        new_end == nih_min(range.end * PAGE_SIZE, block.offset + block.length)
    IN [pathidx |-> block.pathidx,
        offset |-> new_offset,
        length |-> new_end - new_offset,
        physical |-> block.physical + new_offset - block.offset]

\* faulty variant of add_overlaps: a block that meets a range is kept whole
add_overlaps_whole_block(maps, filemapidx, block, reduced) ==
    IF filemapidx >= Len(maps) THEN [filemapidx |-> filemapidx, blocks |-> reduced]
    ELSE IF cmp_file_map(maps[filemapidx + 1], block_range_of(block)) > 0
    THEN [filemapidx |-> filemapidx, blocks |-> reduced]
    ELSE [filemapidx |-> filemapidx, blocks |-> Append(reduced, block)]

\* faulty variant of add_overlaps: the range is left behind even when it
\* reaches beyond the block
RECURSIVE add_overlaps_always_next(_, _, _, _)
add_overlaps_always_next(maps, filemapidx, block, reduced) ==
    IF filemapidx >= Len(maps) THEN [filemapidx |-> filemapidx, blocks |-> reduced]
    ELSE LET range == maps[filemapidx + 1]
             new == reduced_block(block, range)
         IN IF cmp_file_map(range, block_range_of(block)) > 0
            THEN [filemapidx |-> filemapidx, blocks |-> reduced]
            ELSE add_overlaps_always_next(
                     maps, filemapidx + 1, block,
                     IF new.length > 0 THEN Append(reduced, new) ELSE reduced)

\* the for (;;) loop: add blocks while they overlap with the accessed ranges
RECURSIVE add_overlaps(_, _, _, _)
add_overlaps(maps, filemapidx, block, reduced) ==
    IF filemapidx >= Len(maps) THEN [filemapidx |-> filemapidx, blocks |-> reduced]
    ELSE LET range == maps[filemapidx + 1]
             new == reduced_block(block, range)
             out == IF new.length > 0 THEN Append(reduced, new) ELSE reduced
         IN IF cmp_file_map(range, block_range_of(block)) > 0
            THEN [filemapidx |-> filemapidx, blocks |-> reduced]
            ELSE IF range.end > block_range_of(block).end
            THEN [filemapidx |-> filemapidx, blocks |-> out]
            ELSE add_overlaps(maps, filemapidx + 1, block, out)

open_only_block(pathidx) ==
    [pathidx |-> pathidx, offset |-> 0, length |-> 0, physical |-> 0]

\* faulty variant of reduce_block: every block is taken as the first of its path
reduce_block_marker_each(hash, file, c, block) ==
    LET ino == file.paths[block.pathidx + 1].ino
    IN IF inode_missing(hash, file.dev, ino)
       THEN [reduced |-> Append(c.reduced, open_only_block(block.pathidx)),
             maps |-> <<>>, filemapidx |-> 0, pathidx |-> block.pathidx]
       ELSE LET maps == inode_maps(hash, file.dev, ino)
                got == add_overlaps(maps, skip_filemaps(maps, 0, block_range_of(block)),
                                    block, c.reduced)
            IN [reduced |-> got.blocks, maps |-> maps,
                filemapidx |-> got.filemapidx, pathidx |-> block.pathidx]

\* one turn of the loop over the blocks; c holds the locals of the function:
\* reduced (reduced_blocks), maps (nr_maps elements), filemapidx, pathidx
reduce_block(hash, file, c, block) ==
    LET switch == block.pathidx # c.pathidx
        ino == file.paths[block.pathidx + 1].ino
    IN IF switch /\ inode_missing(hash, file.dev, ino)
       THEN [reduced |-> Append(c.reduced, open_only_block(block.pathidx)),
             maps |-> <<>>, filemapidx |-> 0, pathidx |-> block.pathidx]
       ELSE LET maps == IF switch THEN inode_maps(hash, file.dev, ino) ELSE c.maps
                from == IF switch THEN 0 ELSE c.filemapidx
                got == add_overlaps(maps, skip_filemaps(maps, from, block_range_of(block)),
                                    block, c.reduced)
            IN [reduced |-> got.blocks, maps |-> maps,
                filemapidx |-> got.filemapidx, pathidx |-> block.pathidx]

RECURSIVE reduce_blocks_from(_, _, _, _)
reduce_blocks_from(hash, file, c, blockidx) ==
    IF blockidx >= Len(file.blocks) THEN c.reduced
    ELSE reduce_blocks_from(hash, file,
                            reduce_block(hash, file, c, file.blocks[blockidx + 1]),
                            blockidx + 1)

remove_untouched_blocks(hash, file) ==
    [file EXCEPT !.blocks =
        reduce_blocks_from(hash, file,
                           [reduced |-> <<>>, maps |-> <<>>, filemapidx |-> 0, pathidx |-> -1],
                           0)]

----------------------------------------------------------------------------
(* Post-processing of a rotational PackFile                                *)

INODE_GROUP_PRELOAD_THRESHOLD == 8

ext2fs_group_of_ino(ino) == (ino - 1) \div InodesPerGroup

\* faulty variant of trace_add_groups: a group that has reached the
\* threshold is listed
trace_add_groups_reached(file, opened) ==
    IF ~opened THEN file
    ELSE LET paths == [i \in 1..Len(file.paths) |->
                          [file.paths[i] EXCEPT !.group = ext2fs_group_of_ino(file.paths[i].ino)]]
             num_inodes(g) == Cardinality({i \in 1..Len(paths) : paths[i].group = g})
             hits == SelectSeq([g \in 1..NumGroups |-> g - 1],
                               LAMBDA g : num_inodes(g) >= INODE_GROUP_PRELOAD_THRESHOLD)
         IN [file EXCEPT !.paths = paths, !.groups = @ \o hits]

\* opened says whether blkid and ext2fs_open gave a file system
trace_add_groups(file, opened) ==
    IF ~opened THEN file
    ELSE LET paths == [i \in 1..Len(file.paths) |->
                          [file.paths[i] EXCEPT !.group = ext2fs_group_of_ino(file.paths[i].ino)]]
             num_inodes(g) == Cardinality({i \in 1..Len(paths) : paths[i].group = g})
             hits == SelectSeq([g \in 1..NumGroups |-> g - 1],
                               LAMBDA g : num_inodes(g) > INODE_GROUP_PRELOAD_THRESHOLD)
         IN [file EXCEPT !.paths = paths, !.groups = @ \o hits]

\* faulty variant of block_compar: the larger physical comes first
block_compar_descending(a, b) ==
    IF a.physical > b.physical THEN -1
    ELSE IF a.physical < b.physical THEN 1
    ELSE 0

block_compar(a, b) ==
    IF a.physical < b.physical THEN -1
    ELSE IF a.physical > b.physical THEN 1
    ELSE 0

path_compar(a, b) ==
    IF a.group < b.group THEN -1
    ELSE IF a.group > b.group THEN 1
    ELSE IF a.ino < b.ino THEN -1
    ELSE IF b.ino > b.ino THEN 1
    ELSE strcmp(a.path, b.path)

\* what qsort asks of its comparison function: c[i, j] = compar (&base[i], &base[j])
\* is a consistent total order of the elements
consistent(c, n) ==
    /\ \A i, j \in 1..n : (c[i, j] < 0) = (c[j, i] > 0)
    /\ \A i, j \in 1..n : (c[i, j] = 0) = (c[j, i] = 0)
    /\ \A i, j, k \in 1..n : (c[i, j] <= 0 /\ c[j, k] <= 0) => c[i, k] <= 0

\* the orders of the elements S in which each one compares <= all that follow
RECURSIVE sorted_orders(_, _)
sorted_orders(c, S) ==
    IF S = {} THEN {<<>>}
    ELSE UNION {{<<i>> \o t : t \in sorted_orders(c, S \ {i})} :
                   i \in {j \in S : \A k \in S : c[j, k] <= 0}}

RECURSIVE permutations(_)
permutations(S) ==
    IF S = {} THEN {<<>>}
    ELSE UNION {{<<i>> \o t : t \in permutations(S \ {i})} : i \in S}

\* libc qsort: the orders it may leave n elements in; order[k] is the old
\* position of the element that ends at position k. Elements that compare
\* equal end in any order; with a comparison function that is not consistent
\* the order is undefined
qsort(c, n) ==
    IF consistent(c, n) THEN sorted_orders(c, 1..n) ELSE permutations(1..n)

qsort_blocks(file) ==
    qsort([t \in (1..Len(file.blocks)) \X (1..Len(file.blocks)) |->
              block_compar(file.blocks[t[1]], file.blocks[t[2]])],
          Len(file.blocks))

qsort_paths(file) ==
    qsort([t \in (1..Len(file.paths)) \X (1..Len(file.paths)) |->
              path_compar(file.paths[t[1]], file.paths[t[2]])],
          Len(file.paths))

\* faulty variant of trace_sort_blocks: the array is left as it is
trace_sort_blocks_unsorted(file, order) == file

trace_sort_blocks(file, order) ==
    [file EXCEPT !.blocks = [k \in 1..Len(file.blocks) |-> file.blocks[order[k]]]]

\* faulty variant of trace_sort_paths: the blocks keep their old pathidx
trace_sort_paths_keep_idx(file, order) ==
    [file EXCEPT !.paths = [i \in 1..Len(file.paths) |-> file.paths[order[i]]]]

\* order is the paths pointer array after qsort
trace_sort_paths(file, order) ==
    LET num_paths == Len(file.paths)
        new_idx == [old \in 0..(num_paths - 1) |->
                       (CHOOSE i \in 1..num_paths : order[i] = old + 1) - 1]
    IN [file EXCEPT
          !.blocks = [k \in 1..Len(file.blocks) |->
                         [file.blocks[k] EXCEPT !.pathidx = new_idx[file.blocks[k].pathidx]]],
          !.paths = [i \in 1..num_paths |-> file.paths[order[i]]]]

----------------------------------------------------------------------------
(* SpecPack: the open and filemap records are drained into the PackFile    *)
(* array and the index, then read_trace intersects and trace () sorts and  *)
(* writes each PackFile. The options --path-prefix and                     *)
(* --path-prefix-filter are not given (NoOptions).                         *)

\* the path name that read_path_trace hands to trace_add_path, NULL when the
\* prefix filter skips the record
traced_path(raw, filter, prefix) ==
    LET path == fix_path(raw)
        rewritten == prefix.prefix \o path
    IN IF filter # NULL /\ ~has_prefix(path, filter) THEN NULL
       ELSE IF /\ prefix.st_dev # NODEV
               /\ path # <<>>
               /\ path[1] = "/"
               /\ Exists(rewritten)
               /\ lstat(rewritten).st_dev = prefix.st_dev
       THEN rewritten
       ELSE path

\* the filename fields of the open records
RawPaths == {<<"/", "a">>, <<"/", "x", "/", ".", ".", "/", ".", "/", "b">>,
             <<"/", "/", "a", "/">>}

\* what the system can answer while trace_add_path handles the record
Answers(raw) ==
    LET path == traced_path(raw, path_prefix_filter, path_prefix)
    IN IF path = NULL \/ path \in path_hash \/ ~Exists(path) THEN {<<"stat", {}, <<>>>>}
       ELSE {<<"stat", {}, <<>>>>, <<"mmap", {}, <<>>>>}
            \cup {<<"ok", vec, extents>> :
                    vec \in SUBSET (0..(NumPages(lstat(path).st_size) - 1)),
                    extents \in IF force_ssd_mode THEN {<<>>}
                                ELSE Layouts(lstat(path).st_ino)}

\* what read_path_trace does to the PackFile array and the two hashes
path_record(raw, outcome, vec, extents) ==
    LET path == traced_path(raw, path_prefix_filter, path_prefix)
        st == [files |-> files, path_hash |-> path_hash, inode_hash |-> inode_hash]
        new == IF path = NULL THEN st
               ELSE trace_add_path(st, path, force_ssd_mode, outcome, vec, extents)
    IN /\ files' = new.files
       /\ path_hash' = new.path_hash
       /\ inode_hash' = new.inode_hash

read_path_trace(raw, outcome, vec, extents) ==
    /\ pc = "drain"
    /\ path_record(raw, outcome, vec, extents)
    /\ UNCHANGED <<force_ssd_mode, pc, wi, before>>
    /\ UNCHANGED indexvars
    /\ UNCHANGED openvars
    /\ UNCHANGED ctlvars

\* the (s_dev, i_ino) pairs of the filemap records, each with its last page
PackTargets == {<<8 * 1048576, 2, MaxFilePages - 1>>, <<8 * 1048576, 1, 0>>}

\* read_filemap_trace while the PackFile array is assembled
drain_filemap_trace(s_dev, ino, index, last_index) ==
    /\ pc = "drain"
    /\ device_hash' = trace_add_file_map(device_hash, decode_dev(s_dev), ino,
                                         index, last_index)
    /\ UNCHANGED <<accessed, last, todo>>
    /\ UNCHANGED packvars

\* read_trace after the last record: every PackFile is intersected with the index
read_trace_intersect ==
    /\ pc = "drain"
    /\ before' = files
    /\ files' = [i \in 1..Len(files) |-> remove_untouched_blocks(device_hash, files[i])]
    /\ pc' = "intersected"
    /\ UNCHANGED <<path_hash, inode_hash, force_ssd_mode, wi>>
    /\ UNCHANGED indexvars
    /\ UNCHANGED openvars
    /\ UNCHANGED ctlvars

\* the name pack_file_name_for_device gives for the device
PackName(dev) ==
    IF dev = DiskDev THEN "pack"
    ELSE IF dev = OtherDev THEN "mnt.pack"
    ELSE "home.pack"

\* pack_file_name_for_device returns the name, or NULL when it did not
\* resolve the mount point of the device
pack_file_name_for_device(dev, resolved) == IF resolved THEN PackName(dev) ELSE NULL

\* the arguments pack_file and filename_to_replace as main passes them: the
\* option --pack-file twice, or no pack_file and the name main made of PATH
\* (NULL when it found none and --force-trace is given)
TraceArgs ==
    {[fn |-> "trace", pack_file |-> "given.pack", filename_to_replace |-> "given.pack",
      log |-> <<>>]}
    \cup {[fn |-> "trace", pack_file |-> NULL, filename_to_replace |-> name, log |-> <<>>] :
             name \in {NULL, PackName(DiskDev), PackName(OtherDev)}}

\* the loop continues without writing: name is what
\* pack_file_name_for_device returned
Continues(name) ==
    /\ call.pack_file = NULL
    /\ \/ name = NULL
       \/ call.filename_to_replace # NULL /\ call.filename_to_replace # name

\* the log with the step the loop took on the PackFile it is at
Logged(step, filename) ==
    [call EXCEPT !.log = Append(@, [i |-> wi, step |-> step, filename |-> filename])]

\* read_trace at out: the index is freed, trace () goes on to its write loop
read_trace_out ==
    /\ pc = "intersected"
    /\ device_hash' = [b \in Buckets |-> <<>>]
    /\ pc' = "next"
    /\ wi' = 1
    /\ call' \in TraceArgs
    /\ UNCHANGED <<files, path_hash, inode_hash, force_ssd_mode, before>>
    /\ UNCHANGED <<accessed, last, todo>>
    /\ UNCHANGED openvars
    /\ UNCHANGED <<env, session, context, reader, held>>

\* no pack file name for the device (warning), or not the file to replace
\* ("Skipping"): continue
SkipPack(resolved) ==
    /\ pc = "next"
    /\ wi <= Len(files)
    /\ LET name == pack_file_name_for_device(files[wi].dev, resolved)
       IN /\ Continues(name)
          /\ call' = Logged(IF name = NULL THEN "warn" ELSE "skipping", name)
    /\ wi' = wi + 1
    /\ UNCHANGED <<files, path_hash, inode_hash, force_ssd_mode, pc, before>>
    /\ UNCHANGED indexvars
    /\ UNCHANGED openvars
    /\ UNCHANGED <<env, session, context, reader, held>>

\* the file name the loop writes the PackFile to
Filename(file) == IF call.pack_file # NULL THEN call.pack_file ELSE PackName(file.dev)

TraceAddGroups(opened) ==
    /\ pc = "next"
    /\ wi <= Len(files)
    /\ \E resolved \in BOOLEAN :
             ~Continues(pack_file_name_for_device(files[wi].dev, resolved))
    /\ files[wi].rotational
    /\ files' = [files EXCEPT ![wi] = trace_add_groups(@, opened)]
    /\ pc' = "sort_blocks"
    /\ call' = Logged("trace_add_groups", Filename(files[wi]))
    /\ UNCHANGED <<path_hash, inode_hash, force_ssd_mode, wi, before>>
    /\ UNCHANGED indexvars
    /\ UNCHANGED openvars
    /\ UNCHANGED <<env, session, context, reader, held>>

TraceSortBlocks ==
    /\ pc = "sort_blocks"
    /\ \E order \in qsort_blocks(files[wi]) :
          files' = [files EXCEPT ![wi] = trace_sort_blocks(@, order)]
    /\ pc' = "sort_paths"
    /\ call' = Logged("trace_sort_blocks", Filename(files[wi]))
    /\ UNCHANGED <<path_hash, inode_hash, force_ssd_mode, wi, before>>
    /\ UNCHANGED indexvars
    /\ UNCHANGED openvars
    /\ UNCHANGED <<env, session, context, reader, held>>

TraceSortPaths ==
    /\ pc = "sort_paths"
    /\ \E order \in qsort_paths(files[wi]) :
          files' = [files EXCEPT ![wi] = trace_sort_paths(@, order)]
    /\ pc' = "write"
    /\ call' = Logged("trace_sort_paths", Filename(files[wi]))
    /\ UNCHANGED <<path_hash, inode_hash, force_ssd_mode, wi, before>>
    /\ UNCHANGED indexvars
    /\ UNCHANGED openvars
    /\ UNCHANGED <<env, session, context, reader, held>>

WritePack ==
    /\ \/ pc = "write"
       \/ /\ pc = "next"
          /\ wi <= Len(files)
          /\ \E resolved \in BOOLEAN :
             ~Continues(pack_file_name_for_device(files[wi].dev, resolved))
          /\ ~files[wi].rotational
    /\ pc' = "next"
    /\ wi' = wi + 1
    /\ call' = Logged("write_pack", Filename(files[wi]))
    /\ UNCHANGED <<files, path_hash, inode_hash, force_ssd_mode, before>>
    /\ UNCHANGED indexvars
    /\ UNCHANGED openvars
    /\ UNCHANGED <<env, session, context, reader, held>>

TraceReturn ==
    /\ pc = "next"
    /\ wi > Len(files)
    /\ pc' = "done"
    /\ UNCHANGED <<files, path_hash, inode_hash, force_ssd_mode, wi, before>>
    /\ UNCHANGED indexvars
    /\ UNCHANGED openvars
    /\ UNCHANGED ctlvars

InitPack ==
    /\ EmptyIndex
    /\ EmptyPack
    /\ NoSession
    /\ NoOptions
    /\ lastopen = NoOpen
    /\ fixrun = <<>>
    /\ force_ssd_mode \in BOOLEAN

NextPack ==
    \/ \E raw \in RawPaths : \E a \in Answers(raw) : read_path_trace(raw, a[1], a[2], a[3])
    \/ \E t \in PackTargets : \E index \in 0..t[3] : \E last_index \in index..t[3] :
          drain_filemap_trace(t[1], t[2], index, last_index)
    \/ read_trace_intersect
    \/ read_trace_out
    \/ \E resolved \in BOOLEAN : SkipPack(resolved)
    \/ \E opened \in BOOLEAN : TraceAddGroups(opened)
    \/ TraceSortBlocks
    \/ TraceSortPaths
    \/ WritePack
    \/ TraceReturn

SpecPack == InitPack /\ [][NextPack]_vars

\* the intersector has run on every PackFile and the index is still there
Intersected == pc = "intersected"

BlocksOf(file, pathidx) ==
    {k \in 1..Len(file.blocks) : file.blocks[k].pathidx = pathidx}

PathIdxs(file) == 0..(Len(file.paths) - 1)

\* the pages in the ranges that the index holds for the inode of the path
AccessedOf(file, pathidx) ==
    LET map == InodeMap(device_hash, file.dev, file.paths[pathidx + 1].ino)
    IN {p \in 0..MaxFilePages : \E k \in 1..Len(map) : map[k].start <= p /\ p < map[k].end}

\* C6: in every PackFile, at every point of the pipeline, every block's
\* pathidx is smaller than the number of paths of that PackFile.
PathidxValid ==
    \A f \in 1..Len(files) : \A k \in 1..Len(files[f].blocks) :
        /\ files[f].blocks[k].pathidx >= 0
        /\ files[f].blocks[k].pathidx < Len(files[f].paths)

\* after the path sort has moved the paths of a file whose blocks belong to
\* both of them
PathidxValidWitness ==
    /\ pc = "write"
    /\ Len(files[wi].paths) = 2
    /\ files[wi].paths[1].path # before[wi].paths[1].path
    /\ Cardinality(BlocksOf(files[wi], 1)) >= 2
    /\ BlocksOf(files[wi], 0) # {}

\* the pages that the bytes of the block lie in
PagesOf(block) ==
    (block.offset \div PAGE_SIZE)..((block.offset + block.length - 1) \div PAGE_SIZE)

\* C7: after the range intersector every emitted block with length > 0 lies
\* inside one pre-intersection block of the same path and inside the union of
\* the page ranges recorded for that path's inode, and its physical is that
\* block's physical plus (emitted offset - original offset).
IntersectorSound ==
    Intersected =>
    \A f \in 1..Len(files) : \A k \in 1..Len(files[f].blocks) :
        LET e == files[f].blocks[k]
        IN e.length > 0 =>
           /\ \E j \in 1..Len(before[f].blocks) :
                 LET o == before[f].blocks[j]
                 IN /\ o.pathidx = e.pathidx
                    /\ o.offset <= e.offset
                    /\ e.offset + e.length <= o.offset + o.length
                    /\ e.physical = o.physical + (e.offset - o.offset)
           /\ PagesOf(e) \subseteq AccessedOf(before[f], e.pathidx)

\* a block of a rotational file was cut at its start
IntersectorSoundWitness ==
    /\ Intersected
    /\ \E f \in 1..Len(files) : \E k \in 1..Len(files[f].blocks) :
          \E j \in 1..Len(before[f].blocks) :
             LET e == files[f].blocks[k]
                 o == before[f].blocks[j]
             IN /\ files[f].rotational
                /\ e.pathidx = o.pathidx
                /\ o.offset < e.offset
                /\ e.offset + e.length < o.offset + o.length
                /\ e.physical = o.physical + (e.offset - o.offset)

\* the file system blocks of a file; every block of the pack starts and ends
\* on a multiple of FsBlock
Units == 0..((MaxFilePages * PAGE_SIZE) \div FsBlock - 1)

HoldsUnit(block, u) ==
    /\ block.offset <= u * FsBlock
    /\ (u + 1) * FsBlock <= block.offset + block.length

PageOfUnit(u) == (u * FsBlock) \div PAGE_SIZE

\* C8: for every path whose inode has recorded ranges, every byte that is in
\* one of the path's pre-intersection blocks and in an accessed page range is
\* in exactly one emitted block.
IntersectorComplete ==
    Intersected =>
    \A f \in 1..Len(files) : \A p \in PathIdxs(before[f]) : \A u \in Units :
        (/\ AccessedOf(before[f], p) # {}
         /\ PageOfUnit(u) \in AccessedOf(before[f], p)
         /\ \E j \in BlocksOf(before[f], p) : HoldsUnit(before[f].blocks[j], u))
        => Cardinality({k \in BlocksOf(files[f], p) : HoldsUnit(files[f].blocks[k], u)}) = 1

\* one accessed page lies in two blocks, and the first of the two holds two
\* accessed ranges
IntersectorCompleteWitness ==
    /\ Intersected
    /\ \E f \in 1..Len(files) : \E j \in 1..(Len(before[f].blocks) - 1) :
          LET o1 == before[f].blocks[j]
              o2 == before[f].blocks[j + 1]
              acc == AccessedOf(before[f], o1.pathidx)
          IN /\ o1.pathidx = o2.pathidx
             /\ o1.offset + o1.length = o2.offset
             /\ o2.offset % PAGE_SIZE # 0
             /\ (o2.offset \div PAGE_SIZE) \in acc
             /\ \E p1, p2 \in PagesOf(o1) :
                   /\ p1 + 1 < p2
                   /\ p1 \in acc
                   /\ p2 \in acc
                   /\ (p1 + 1) \notin acc
             /\ Cardinality(BlocksOf(files[f], o1.pathidx)) >= 3

\* exactly one block for the path, the open-only marker
OnlyMarker(file, pathidx) ==
    /\ Cardinality(BlocksOf(file, pathidx)) = 1
    /\ \A k \in BlocksOf(file, pathidx) : file.blocks[k] = open_only_block(pathidx)

\* C9: a file that was opened (has a PackPath) but for which no filemap access
\* was recorded produces, after the range intersector, exactly one block for
\* its pathidx, the marker {pathidx, 0, 0, 0}.
MarkerForUnread ==
    Intersected =>
    \A f \in 1..Len(files) : \A p \in PathIdxs(files[f]) :
        AccessedOf(files[f], p) = {} => OnlyMarker(files[f], p)

\* C9 (amended): a file that was opened, had at least one block assembled for
\* its path before the range intersector, and for which no filemap access was
\* recorded produces exactly one block for its pathidx, the marker.
MarkerForUnreadBlocks ==
    Intersected =>
    \A f \in 1..Len(files) : \A p \in PathIdxs(files[f]) :
        (AccessedOf(files[f], p) = {} /\ BlocksOf(before[f], p) # {})
        => OnlyMarker(files[f], p)

\* a path with two blocks and no access is left with the marker
MarkerForUnreadBlocksWitness ==
    /\ Intersected
    /\ \E f \in 1..Len(files) : \E p \in PathIdxs(files[f]) :
          /\ AccessedOf(files[f], p) = {}
          /\ Cardinality(BlocksOf(before[f], p)) >= 2
          /\ OnlyMarker(files[f], p)
          /\ p > 0

KeyLeq(a, b) ==
    \/ a.group < b.group
    \/ a.group = b.group /\ a.ino < b.ino
    \/ a.group = b.group /\ a.ino = b.ino /\ strcmp(a.path, b.path) <= 0

\* C10: after trace_sort_paths the paths array of the PackFile is ordered by
\* the key (group, ino, path): paths[i] <= paths[j] for every i < j.
PathsSortedByKey ==
    pc = "write" =>
    \A i, j \in 1..Len(files[wi].paths) :
        i < j => KeyLeq(files[wi].paths[i], files[wi].paths[j])

\* the number of places of the paths array that hold the record
PathCount(file, p) == Cardinality({i \in 1..Len(file.paths) : file.paths[i] = p})

\* C11: the step of trace_sort_paths neither loses nor duplicates a path,
\* every block refers after the step to the same PackPath record (path, ino,
\* group) as before it, and the offset, length and physical of every block
\* are unchanged.
SortPathsFrame ==
    [][pc = "sort_paths" =>
         LET old == files[wi]
             new == files'[wi]
         IN /\ Len(new.paths) = Len(old.paths)
            /\ \A i \in 1..Len(old.paths) :
                  PathCount(new, old.paths[i]) = PathCount(old, old.paths[i])
            /\ Len(new.blocks) = Len(old.blocks)
            /\ \A k \in 1..Len(old.blocks) :
                  /\ new.blocks[k].pathidx \in PathIdxs(new)
                  /\ new.paths[new.blocks[k].pathidx + 1] = old.paths[old.blocks[k].pathidx + 1]
                  /\ new.blocks[k].offset = old.blocks[k].offset
                  /\ new.blocks[k].length = old.blocks[k].length
                  /\ new.blocks[k].physical = old.blocks[k].physical]_vars

\* the path sort has exchanged two paths, and the first block of the file
\* belongs to the path that is now the second
SortPathsFrameWitness ==
    /\ pc = "write"
    /\ Len(files[wi].paths) = 2
    /\ files[wi].paths[1].ino < files[wi].paths[2].ino
    /\ files[wi].paths[2].path = before[wi].paths[1].path
    /\ Len(files[wi].blocks) >= 2
    /\ files[wi].blocks[1].pathidx = 1
    /\ \E k \in 1..Len(files[wi].blocks) : files[wi].blocks[k].pathidx = 0

----------------------------------------------------------------------------
(* SpecFix: fix_path applied to a string, and again to its result          *)

\* the strings are made of these characters and are at most MaxLen long
FixChars == {"/", ".", "a"}
MaxLen == 6

\* the example of the path normalizer: /a//b/./c/../d/
FixExample == <<"/", "a", "/", "/", "b", "/", ".", "/", "c", "/", ".", ".", "/", "d", "/">>

FixInputs == UNION {[1..n -> FixChars] : n \in 0..MaxLen} \cup {FixExample}

InitFix ==
    /\ EmptyIndex
    /\ EmptyPack
    /\ NoSession
    /\ NoOptions
    /\ lastopen = NoOpen
    /\ force_ssd_mode = FALSE
    /\ \E s \in FixInputs : fixrun = <<s>>

\* read_path_trace calls fix_path on the string
FixPath ==
    /\ Len(fixrun) = 1
    /\ fixrun' = Append(fixrun, fix_path(fixrun[1]))
    /\ UNCHANGED <<files, path_hash, inode_hash, force_ssd_mode, pc, wi, before,
                   path_prefix_filter, path_prefix, lastopen>>
    /\ UNCHANGED indexvars
    /\ UNCHANGED ctlvars

\* fix_path is called on its own result
FixPathAgain ==
    /\ Len(fixrun) = 2
    /\ fixrun' = Append(fixrun, fix_path(fixrun[2]))
    /\ UNCHANGED <<files, path_hash, inode_hash, force_ssd_mode, pc, wi, before,
                   path_prefix_filter, path_prefix, lastopen>>
    /\ UNCHANGED indexvars
    /\ UNCHANGED ctlvars

NextFix == FixPath \/ FixPathAgain

SpecFix == InitFix /\ [][NextFix]_vars

\* C12: fix_path applied to its own result returns that result, for every
\* input string, absolute or relative.
FixPathIdempotent ==
    Len(fixrun) = 3 => fixrun[3] = fixrun[2]

\* a relative string and an absolute one that fix_path changed
FixPathIdempotentWitness ==
    /\ Len(fixrun) = 3
    /\ fixrun[2] # fixrun[1]
    /\ fixrun[2] # <<>>
    /\ fixrun[1][1] # "/"
    /\ fixrun[2][1] = "/"

\* the components of a path name: the maximal runs of characters other than '/'
RECURSIVE Split(_)
Split(s) ==
    IF s = <<>> THEN <<>>
    ELSE IF Head(s) = "/" THEN Split(Tail(s))
    ELSE LET n == strcspn(s, 1)
         IN <<SubSeq(s, 1, n)>> \o Split(SubSeq(s, n + 1, Len(s)))

\* the components left when "." is dropped and ".." drops the component
\* before it, or nothing when there is none
RECURSIVE Resolve(_, _)
Resolve(comps, stack) ==
    IF comps = <<>> THEN stack
    ELSE IF Head(comps) = <<".">> THEN Resolve(Tail(comps), stack)
    ELSE IF Head(comps) = <<".", ".">>
    THEN Resolve(Tail(comps), IF stack = <<>> THEN <<>>
                              ELSE SubSeq(stack, 1, Len(stack) - 1))
    ELSE Resolve(Tail(comps), Append(stack, Head(comps)))

\* C13: for every absolute input the result of fix_path has no "//", no
\* component "." and no component "..", and its components are those of the
\* input with every "." dropped and every ".." dropping exactly the one
\* component before it (or nothing at the start); /a//b/./c/../d/ gives
\* /a/b/d.
FixPathResolves ==
    (Len(fixrun) >= 2 /\ Absolute(fixrun[1])) =>
        LET out == fixrun[2]
        IN /\ \A i \in 1..(Len(out) - 1) : ~(out[i] = "/" /\ out[i + 1] = "/")
           /\ \A k \in 1..Len(Split(out)) : Split(out)[k] \notin {<<".">>, <<".", ".">>}
           /\ Split(out) = Resolve(Split(fixrun[1]), <<>>)
           /\ fixrun[1] = FixExample => out = <<"/", "a", "/", "b", "/", "d">>

\* fix_path has handled the example, which has "//", "/./", "/../" and a
\* trailing '/'
FixPathResolvesWitness ==
    /\ Len(fixrun) >= 2
    /\ fixrun[1] = FixExample
    /\ Len(Split(fixrun[1])) = 6
    /\ Len(Split(fixrun[2])) = 3

\* C14: for every absolute input the result of fix_path is absolute (never
\* the empty string), it ends with '/' only when it is the root "/", and
\* an input whose components all cancel ("/", "//", "/.", "/a/..") gives "/".
FixPathKeepsRoot ==
    (Len(fixrun) >= 2 /\ Absolute(fixrun[1])) =>
        LET out == fixrun[2]
        IN /\ Absolute(out)
           /\ out[Len(out)] = "/" => out = <<"/">>
           /\ Resolve(Split(fixrun[1]), <<>>) = <<>> => out = <<"/">>

----------------------------------------------------------------------------
(* SpecOpen: the open records reach the path handler, with or without the  *)
(* option --path-prefix                                                    *)

\* number of path names the records may bring into path_hash
MaxOpens == 2

\* --path-prefix /m, which lies on the first disk
MountPrefix == [st_dev |-> DiskDev, prefix |-> <<"/", "m">>]

\* the filename fields of the open records: the two links /b and /c, the
\* empty file, the file of the second disk, /b once more, two relative
\* names, a name under /tmp and names of PACK_PATH_MAX and
\* PACK_PATH_MAX + 1 characters;
\* with --path-prefix the records name /b, a relative name and the name
\* under /tmp
OpenPaths ==
    IF path_prefix.st_dev = NODEV
    THEN {<<"/", "b">>, <<"/", "c">>, <<"/", "e">>, <<"/", "d">>,
          <<"/", "/", "b", "/">>,
          <<"a", "/", ".", ".", "/", "b">>, <<"b">>,
          <<"/", "t", "m", "p", "/", "x">>,
          LongName(PACK_PATH_MAX), LongName(PACK_PATH_MAX + 1)}
    ELSE {<<"/", "b">>, <<"b">>, <<"/", "t", "m", "p", "/", "x">>}

\* the number of PackPath records in all PackFiles
NumPaths(fs) ==
    Cardinality(UNION {{<<f, i>> : i \in 1..Len(fs[f].paths)} : f \in 1..Len(fs)})

InitOpen ==
    /\ EmptyIndex
    /\ EmptyPack
    /\ NoSession
    /\ path_prefix_filter = NULL
    /\ path_prefix \in {NoPrefix, MountPrefix}
    /\ lastopen = NoOpen
    /\ fixrun = <<>>
    /\ force_ssd_mode = FALSE

OpenRecord(raw, outcome, vec, extents) ==
    /\ pc = "drain"
    /\ path_record(raw, outcome, vec, extents)
    /\ Cardinality(path_hash') <= MaxOpens
    /\ lastopen' = [relative |-> ~Absolute(raw),
                    ignored |-> ignore_path(fix_path(raw)),
                    seen |-> traced_path(raw, path_prefix_filter, path_prefix) \in path_hash,
                    grew |-> NumPaths(files') > NumPaths(files)]
    /\ UNCHANGED <<force_ssd_mode, pc, wi, before, path_prefix_filter, path_prefix, fixrun>>
    /\ UNCHANGED indexvars
    /\ UNCHANGED ctlvars

\* what the system can answer while trace_add_path handles the record, also
\* for a path name that has been handled before; a path name that
\* trace_add_path leaves before it asks the system gets one answer
OpenAnswers(raw) ==
    LET path == traced_path(raw, path_prefix_filter, path_prefix)
        st == [files |-> files, path_hash |-> path_hash, inode_hash |-> inode_hash]
        failed == trace_add_path(st, path, force_ssd_mode, "stat", {}, <<>>)
    IN IF path = NULL \/ ~Exists(path) \/ path \notin failed.path_hash
       THEN {<<"stat", {}, <<>>>>}
       ELSE {<<"stat", {}, <<>>>>, <<"mmap", {}, <<>>>>}
            \cup {<<"ok", vec, extents>> :
                    vec \in SUBSET (0..(NumPages(lstat(path).st_size) - 1)),
                    extents \in Layouts(lstat(path).st_ino)}

NextOpen ==
    \E raw \in OpenPaths : \E a \in OpenAnswers(raw) : OpenRecord(raw, a[1], a[2], a[3])

SpecOpen == InitOpen /\ [][NextOpen]_vars

\* C15: an open record whose filename does not begin with '/' registers no
\* PackPath (and so no block), also when the filename has ".." in it.
RelativeDiscarded ==
    ~(lastopen.relative /\ lastopen.grew)

\* C16: an open record whose normalized filename begins with an ignored
\* prefix registers no PackPath, whether or not --path-prefix is given.
IgnoredDiscarded ==
    ~(lastopen.ignored /\ lastopen.grew)

\* the path names of all PackPath records, by PackFile and place
PathPlaces(fs) == UNION {{<<f, i>> : i \in 1..Len(fs[f].paths)} : f \in 1..Len(fs)}

\* C16 as it holds: no path name that begins with an ignored prefix when it
\* reaches trace_add_path, that is after the prefix rewrite, is registered;
\* without --path-prefix a record whose normalized filename begins with an
\* ignored prefix registers nothing.
IgnoredAfterRewriteDiscarded ==
    /\ \A t \in PathPlaces(files) : ~ignore_path(files[t[1]].paths[t[2]].path)
    /\ path_prefix.st_dev = NODEV => ~(lastopen.ignored /\ lastopen.grew)

\* without --path-prefix a record with a filename under /tmp has been
\* dropped after other files were registered
IgnoredAfterRewriteDiscardedWitness ==
    /\ lastopen.ignored
    /\ ~lastopen.grew
    /\ ~lastopen.seen
    /\ NumPaths(files) = MaxOpens
    /\ path_prefix.st_dev = NODEV

\* C17: over all PackFiles no path string is registered twice, and every
\* registered path has at most PACK_PATH_MAX characters.
PathsUnique ==
    /\ \A t, u \in PathPlaces(files) :
          files[t[1]].paths[t[2]].path = files[u[1]].paths[u[2]].path => t = u
    /\ \A t \in PathPlaces(files) : Len(files[t[1]].paths[t[2]].path) <= PACK_PATH_MAX

\* two PackFiles, one with a path of PACK_PATH_MAX characters, and the last
\* record named a path that was already in path_hash
PathsUniqueWitness ==
    /\ Len(files) = 2
    /\ \E t \in PathPlaces(files) : Len(files[t[1]].paths[t[2]].path) = PACK_PATH_MAX
    /\ lastopen.seen
    /\ ~lastopen.grew

\* C18: of the paths of a PackFile that have the same inode only the one
\* registered first has blocks; each of them has its own PackPath.
LinksShareBlocks ==
    \A f \in 1..Len(files) : \A i, j \in 1..Len(files[f].paths) :
        (i < j /\ files[f].paths[i].ino = files[f].paths[j].ino)
            => BlocksOf(files[f], j - 1) = {}

\* /b and /c, two links to one inode, are registered and the first has a block
LinksShareBlocksWitness ==
    \E f \in 1..Len(files) :
        /\ Len(files[f].paths) = 2
        /\ files[f].paths[1].ino = files[f].paths[2].ino
        /\ files[f].paths[1].path # files[f].paths[2].path
        /\ BlocksOf(files[f], 0) # {}
        /\ <<files[f].dev, files[f].paths[1].ino>> \in inode_hash

\* the number of blocks in all PackFiles
NumBlocks(fs) == Cardinality(UNION {{<<f, k>> : k \in 1..Len(fs[f].blocks)} : f \in 1..Len(fs)})

\* the path name is new, passes the checks of trace_add_path and names a
\* regular file of size zero
NewEmptyFile(path) ==
    /\ path # NULL
    /\ Absolute(path)
    /\ ~ignore_path(path)
    /\ Len(path) <= PACK_PATH_MAX
    /\ path \notin path_hash
    /\ Exists(path)
    /\ lstat(path).reg
    /\ lstat(path).st_size = 0

\* C19: a step that registers a regular file of size zero appends one
\* PackPath for it, with its inode number, and appends no block.
EmptyFileNoBlock ==
    [][\A raw \in OpenPaths :
         LET path == traced_path(raw, path_prefix_filter, path_prefix)
         IN (/\ NewEmptyFile(path)
             /\ \E a \in OpenAnswers(raw) :
                   a[1] # "stat" /\ OpenRecord(raw, a[1], a[2], a[3]))
            => /\ NumPaths(files') = NumPaths(files) + 1
               /\ NumBlocks(files') = NumBlocks(files)
               /\ \E t \in PathPlaces(files') :
                     /\ files'[t[1]].paths[t[2]].path = path
                     /\ files'[t[1]].paths[t[2]].ino = lstat(path).st_ino
                     /\ files'[t[1]].dev = lstat(path).st_dev
                     /\ BlocksOf(files'[t[1]], t[2] - 1) = {}]_vars

\* the empty file /e has been registered behind a file that has a block
EmptyFileNoBlockWitness ==
    /\ lastopen.grew
    /\ \E f \in 1..Len(files) :
          /\ Len(files[f].paths) = 2
          /\ files[f].paths[2].path = <<"/", "e">>
          /\ Len(files[f].blocks) = 1
          /\ files[f].blocks[1].pathidx = 0

\* C20: a PackFile with rotational false reaches the writer without groups,
\* with its blocks in insertion order (by pathidx, and by offset within a
\* path), and with physical = -1 in every block, the blocks of the range
\* intersector included.
NonRotationalUntouched ==
    (pc = "next" /\ wi <= Len(files) /\ ~files[wi].rotational) =>
        LET file == files[wi]
        IN /\ file.groups = <<>>
           /\ \A k, l \in 1..Len(file.blocks) :
                 k < l => \/ file.blocks[k].pathidx < file.blocks[l].pathidx
                          \/ /\ file.blocks[k].pathidx = file.blocks[l].pathidx
                             /\ file.blocks[k].offset < file.blocks[l].offset
           /\ \A k \in 1..Len(file.blocks) : file.blocks[k].physical = -1

----------------------------------------------------------------------------
(* The session controller: trace ()                                        *)
(*                                                                         *)
(* env is what trace () works on: the events that are enabled, the events  *)
(* the kernel does not have, the ring-buffer size of every CPU, whether    *)
(* tracing is on, and the dispositions of SIGTERM and SIGINT.  session     *)
(* holds the arguments and locals of trace () and the statement it is at.  *)
(* trace () is cut at its system calls, so that a signal can arrive        *)
(* between any two of them.                                                *)

\* EVENTS: the trace events, the first NR_REQUIRED_EVENTS are required
EVENTS ==
    << <<"fs", "do_sys_open">>, <<"fs", "open_exec">>, <<"fs", "uselib">>,
       <<"filemap", "mm_filemap_fault">>, <<"filemap", "mm_filemap_get_pages">>,
       <<"filemap", "mm_filemap_map_pages">> >>

NR_EVENTS == Len(EVENTS)

NR_REQUIRED_EVENTS == 2

\* CPUs of the machine, each with a ring buffer of its own
NumCpus == 2

Cpus == 0..(NumCpus - 1)

\* signals delivered to one session
MaxSignals == 1

\* ring-buffer sizes a CPU can have before the session, in KiB
BufferSizes == {1408, 4096}

\* the events enabled before the session
PriorEnabled == {{}, {1}, {3, 5}, 1..NR_EVENTS}

\* the events the running kernel does not have
MissingEvents == {{}, {2}, {3}, {4, 6}}

\* the values of the argument timeout
Timeouts == {0, 1}

tracefs_event_is_enabled(e, i) ==
    IF i \in e.enabled THEN "TRACEFS_ALL_ENABLED" ELSE "TRACEFS_ALL_DISABLED"

\* enabling an event the kernel does not have fails
tracefs_event_enable(e, i) ==
    IF i \in e.missing
    THEN [ret |-> -1, env |-> e]
    ELSE [ret |-> 0, env |-> [e EXCEPT !.enabled = @ \cup {i}]]

tracefs_event_disable(e, i) ==
    IF i \in e.missing THEN e ELSE [e EXCEPT !.enabled = @ \ {i}]

\* the size of the ring buffer of one CPU
tracefs_instance_get_buffer_size(e, cpu) == e.buffer_size_kb[cpu]

\* a negative cpu sets the ring buffer of every CPU
tracefs_instance_set_buffer_size(e, size, cpu) ==
    [e EXCEPT !.buffer_size_kb =
        [c \in Cpus |-> IF cpu < 0 \/ c = cpu THEN size ELSE @[c]]]

\* trace: what old_events_enabled[i] becomes
old_enabled(old_state) ==
    IF old_state = "TRACEFS_ALL_ENABLED" \/ old_state = "TRACEFS_SOME_ENABLED"
    THEN 1 ELSE 0

\* faulty variant: a failure to enable any event ends trace ()
enable_failed_any(i, ret) == ret < 0

\* trace: a failure to enable event i (0-based) ends trace ()
enable_failed(i, ret) == ret < 0 /\ i < NR_REQUIRED_EVENTS

\* trace: the loop that enables the events, from event i (0-based) on;
\* failed is the return taken inside the loop
RECURSIVE trace_enable_events(_, _, _)
trace_enable_events(e, i, old) ==
    IF i >= NR_EVENTS
    THEN [env |-> e, i |-> i, old_events_enabled |-> old, failed |-> FALSE]
    ELSE LET old_state == tracefs_event_is_enabled(e, i + 1)
             now == [old EXCEPT ![i] = old_enabled(old_state)]
             en == tracefs_event_enable(e, i + 1)
         IN  IF enable_failed(i, en.ret)
             THEN [env |-> en.env, i |-> i, old_events_enabled |-> now, failed |-> TRUE]
             ELSE trace_enable_events(en.env, i + 1, now)

\* faulty variant: every event is disabled again
keep_enabled_never(old) == FALSE

\* trace: the event was enabled before the session and stays enabled
keep_enabled(old) == old > 0

\* trace: the loop that disables the events the session enabled
RECURSIVE trace_disable_events(_, _, _)
trace_disable_events(e, i, old) ==
    IF i >= NR_EVENTS
    THEN e
    ELSE IF keep_enabled(old[i])
         THEN trace_disable_events(e, i + 1, old)
         ELSE trace_disable_events(tracefs_event_disable(e, i + 1), i + 1, old)

\* the statements of trace () between tracefs_trace_on and read_trace
Armed == {"fork", "sigterm", "sigint", "wait", "blocked", "restore_sigterm",
          "restore_sigint", "trace_off", "disable"}

\* trace () has ended or the process is gone
Ended == {"done", "failed", "killed"}

\* trace () returns -1 from the statement it is at
Fail == [session EXCEPT !.pc = "failed", !.at = session.pc, !.ret = -1]

At(p) == [session EXCEPT !.pc = p]

InitSession ==
    /\ EmptyIndex
    /\ EmptyPack
    /\ NoOptions
    /\ lastopen = NoOpen
    /\ fixrun = <<>>
    /\ force_ssd_mode = FALSE
    /\ context = <<>>
    /\ reader = <<>>
    /\ held = <<>>
    /\ call = <<>>
    /\ \E enabled \in PriorEnabled, missing \in MissingEvents,
          sizes \in [Cpus -> BufferSizes], on \in BOOLEAN,
          disp \in {"SIG_DFL", "SIG_IGN"} :
          env = [enabled |-> enabled, missing |-> missing,
                 buffer_size_kb |-> sizes, tracing_on |-> on,
                 sigterm |-> disp, sigint |-> disp]
    /\ \E timeout \in Timeouts, use_existing_trace_events \in BOOLEAN :
          session = [pc |-> "events", at |-> "", ret |-> 0, i |-> 0,
                     timeout |-> timeout,
                     use_existing_trace_events |-> use_existing_trace_events,
                     old_events_enabled |-> [i \in 0..(NR_EVENTS - 1) |-> 0],
                     old_tracing_enabled |-> 0,
                     old_buffer_size_kb |-> 0,
                     old_sigterm |-> "", old_sigint |-> "",
                     entry |-> env, signals |-> 0, signalled |-> FALSE,
                     waited |-> FALSE]

SessionFrame == UNCHANGED <<indexvars, files, path_hash, inode_hash, force_ssd_mode,
                            pc, wi, before, openvars, context, reader, held, call>>

\* trace: the events are enabled unless --use-existing-trace-events is given
EnableEvents ==
    /\ session.pc = "events"
    /\ IF session.use_existing_trace_events
       THEN /\ session' = At("get_buffer_size")
            /\ UNCHANGED env
       ELSE LET r == trace_enable_events(env, 0, session.old_events_enabled)
            IN  /\ env' = r.env
                /\ session' = IF r.failed
                              THEN [Fail EXCEPT !.i = r.i,
                                                !.old_events_enabled = r.old_events_enabled]
                              ELSE [At("get_buffer_size") EXCEPT
                                       !.old_events_enabled = r.old_events_enabled]
    /\ SessionFrame

\* trace: the size of the ring buffer of CPU 0 is remembered
GetBufferSize(ok) ==
    /\ session.pc = "get_buffer_size"
    /\ session' = IF ok
                  THEN [At("set_buffer_size") EXCEPT !.old_buffer_size_kb =
                           tracefs_instance_get_buffer_size(env, 0)]
                  ELSE Fail
    /\ UNCHANGED env
    /\ SessionFrame

\* trace: every CPU gets a ring buffer of 8192 KiB
SetBufferSize(ok) ==
    /\ session.pc = "set_buffer_size"
    /\ IF ok
       THEN /\ env' = tracefs_instance_set_buffer_size(env, 8192, -1)
            /\ session' = At("trace_is_on")
       ELSE /\ session' = Fail
            /\ UNCHANGED env
    /\ SessionFrame

TraceIsOn(ok) ==
    /\ session.pc = "trace_is_on"
    /\ session' = IF ok
                  THEN [At("trace_on") EXCEPT !.old_tracing_enabled =
                           IF env.tracing_on THEN 1 ELSE 0]
                  ELSE Fail
    /\ UNCHANGED env
    /\ SessionFrame

TraceOn(ok) ==
    /\ session.pc = "trace_on"
    /\ IF ok
       THEN /\ env' = [env EXCEPT !.tracing_on = TRUE]
            /\ session' = At("fork")
       ELSE /\ session' = Fail
            /\ UNCHANGED env
    /\ SessionFrame

\* trace: with daemonise the child goes on and the parent leaves
Fork(daemonise, ok) ==
    /\ session.pc = "fork"
    /\ session' = IF daemonise /\ ~ok THEN Fail ELSE At("sigterm")
    /\ UNCHANGED env
    /\ SessionFrame

\* trace: sig_interrupt becomes the handler of SIGTERM, then of SIGINT, and
\* the dispositions they had are remembered
Sigaction(sig) ==
    /\ session.pc = sig
    /\ IF sig = "sigterm"
       THEN /\ env' = [env EXCEPT !.sigterm = "sig_interrupt"]
            /\ session' = [At("sigint") EXCEPT !.old_sigterm = env.sigterm]
       ELSE /\ env' = [env EXCEPT !.sigint = "sig_interrupt"]
            /\ session' = [At("wait") EXCEPT !.old_sigint = env.sigint]
    /\ SessionFrame

\* trace: select () or pause () is entered and the process sleeps
Wait ==
    /\ session.pc = "wait"
    /\ session' = [At("blocked") EXCEPT !.waited = TRUE]
    /\ UNCHANGED env
    /\ SessionFrame

\* select () returns when the time is over, pause () never returns by itself
TimeOver ==
    /\ session.pc = "blocked"
    /\ session.timeout # 0
    /\ session' = At("restore_sigterm")
    /\ UNCHANGED env
    /\ SessionFrame

\* a signal is delivered to the process: the default action of SIGTERM and
\* SIGINT ends the process, sig_interrupt does nothing, and a handler that
\* has run makes select () or pause () return
Signal(sig) ==
    /\ session.pc \notin Ended
    /\ session.signals < MaxSignals
    /\ LET disp == IF sig = "SIGTERM" THEN env.sigterm ELSE env.sigint
           s == [session EXCEPT !.signals = @ + 1,
                                !.signalled = @ \/ session.pc \in Armed]
       IN  session' = IF disp = "SIG_DFL" THEN [s EXCEPT !.pc = "killed"]
                      ELSE IF disp = "sig_interrupt" /\ session.pc = "blocked"
                      THEN [s EXCEPT !.pc = "restore_sigterm"]
                      ELSE s
    /\ UNCHANGED env
    /\ SessionFrame

\* trace: SIGTERM, then SIGINT, gets the disposition it had
RestoreSig(sig) ==
    /\ session.pc = sig
    /\ IF sig = "restore_sigterm"
       THEN /\ env' = [env EXCEPT !.sigterm = session.old_sigterm]
            /\ session' = At("restore_sigint")
       ELSE /\ env' = [env EXCEPT !.sigint = session.old_sigint]
            /\ session' = At("trace_off")
    /\ SessionFrame

\* trace: tracing is turned off when it was off before the session
TraceOff(ok) ==
    /\ session.pc = "trace_off"
    /\ IF session.old_tracing_enabled = 0
       THEN IF ok
            THEN /\ env' = [env EXCEPT !.tracing_on = FALSE]
                 /\ session' = At("disable")
            ELSE /\ session' = Fail
                 /\ UNCHANGED env
       ELSE /\ session' = At("disable")
            /\ UNCHANGED env
    /\ SessionFrame

DisableEvents ==
    /\ session.pc = "disable"
    /\ env' = IF session.use_existing_trace_events
              THEN env
              ELSE trace_disable_events(env, 0, session.old_events_enabled)
    /\ session' = At("read_trace")
    /\ SessionFrame

\* trace: the ring buffer is drained
ReadTrace(ok) ==
    /\ session.pc = "read_trace"
    /\ session' = IF ok THEN At("restore_buffer_size") ELSE Fail
    /\ UNCHANGED env
    /\ SessionFrame

RestoreBufferSize(ok) ==
    /\ session.pc = "restore_buffer_size"
    /\ IF ok
       THEN /\ env' = tracefs_instance_set_buffer_size(env, session.old_buffer_size_kb, -1)
            /\ session' = At("write")
       ELSE /\ session' = Fail
            /\ UNCHANGED env
    /\ SessionFrame

\* trace: the pack files are written and trace () returns 0
WritePacks ==
    /\ session.pc = "write"
    /\ session' = At("done")
    /\ UNCHANGED env
    /\ SessionFrame

NextSession ==
    \/ EnableEvents
    \/ \E ok \in BOOLEAN : GetBufferSize(ok)
    \/ \E ok \in BOOLEAN : SetBufferSize(ok)
    \/ \E ok \in BOOLEAN : TraceIsOn(ok)
    \/ \E ok \in BOOLEAN : TraceOn(ok)
    \/ \E daemonise \in BOOLEAN, ok \in BOOLEAN : Fork(daemonise, ok)
    \/ \E sig \in {"sigterm", "sigint"} : Sigaction(sig)
    \/ Wait
    \/ TimeOver
    \/ \E sig \in {"SIGTERM", "SIGINT"} : Signal(sig)
    \/ \E sig \in {"restore_sigterm", "restore_sigint"} : RestoreSig(sig)
    \/ \E ok \in BOOLEAN : TraceOff(ok)
    \/ DisableEvents
    \/ \E ok \in BOOLEAN : ReadTrace(ok)
    \/ \E ok \in BOOLEAN : RestoreBufferSize(ok)
    \/ WritePacks

SpecSession == InitSession /\ [][NextSession]_vars

\* the tracer and the dispositions are what they were when trace () was entered
Restored == env = session.entry

\* every CPU had a ring buffer of the same size when trace () was entered
SameSizes == \A c \in Cpus : session.entry.buffer_size_kb[c] = session.entry.buffer_size_kb[0]

DrainWithTracingOff == (session.pc = "read_trace") => ~env.tracing_on

(* C23: a SIGTERM or SIGINT delivered between tracefs_trace_on and the     *)
(* start of the drain neither ends the process nor leaves the session      *)
(* asleep in pause () with the signal used up.                             *)
SignalOnlyEndsWait ==
    session.signalled =>
        /\ session.pc # "killed"
        /\ ~(session.pc = "blocked" /\ session.timeout = 0)

(* C24: trace () returns -1 from the loop that enables the events only for *)
(* do_sys_open or open_exec, and then the ring-buffer sizes and tracing-on  *)
(* are the ones of the entry and the wait has not begun; when one of the   *)
(* two cannot be enabled trace () gets no further than the loop.           *)
RequiredEventsOnly ==
    /\ (session.pc = "failed" /\ session.at = "events") =>
          /\ session.i < NR_REQUIRED_EVENTS
          /\ (session.i + 1) \in env.missing
          /\ env.buffer_size_kb = session.entry.buffer_size_kb
          /\ env.tracing_on = session.entry.tracing_on
          /\ ~session.waited
    /\ (~session.use_existing_trace_events
           /\ env.missing \cap (1..NR_REQUIRED_EVENTS) # {}) =>
          session.pc \in {"events", "failed", "killed"} /\ session.at \in {"", "events"}
    /\ (session.pc = "get_buffer_size" /\ ~session.use_existing_trace_events) =>
          env.enabled = session.entry.enabled \cup ((1..NR_EVENTS) \ env.missing)

\* open_exec cannot be enabled and trace () has returned -1
RequiredEventsOnlyWitness ==
    /\ session.pc = "failed"
    /\ session.at = "events"
    /\ session.i = 1
    /\ 1 \in env.enabled

----------------------------------------------------------------------------
(* The drain: read_trace and its record callback                           *)
(*                                                                         *)
(* An event is named by its id: EVENTS[k] has id k, OtherEvent is an event *)
(* of another name that is found in the ring buffer.  A pointer to an      *)
(* event is the id, the NULL pointer is 0.                                 *)

OtherEvent == NR_EVENTS + 1

EventIds == 1..OtherEvent

\* the events whose records have the field filename
PathEvents == 1..3

FilemapEvents == 4..NR_EVENTS

\* records the ring buffer holds at most
MaxRecords == 2

\* init_filemap_tep: the event and whether it has the field last_index
\* (mm_filemap_fault has none); inode, device and index are left as they
\* were when the event is not found
init_filemap_tep(present, id) ==
    IF id \in present
    THEN [event |-> id, last_index |-> id # 4]
    ELSE [event |-> 0, last_index |-> FALSE]

\* what the read of ->id through a NULL pointer can give in one call: the
\* process is ended by SIGSEGV, or the read gives the number found at that
\* address, which is the id of the record's event or another number
Loads(event) ==
    {[segv |-> TRUE, id |-> 0], [segv |-> FALSE, id |-> event],
     [segv |-> FALSE, id |-> 0]}

\* ptr->id
id_of(ptr, load) == IF ptr = 0 THEN load ELSE [segv |-> FALSE, id |-> ptr]

\* read_trace_cb: the function the record is given to
read_trace_cb(ctx, event, load) ==
    LET a == id_of(ctx.do_sys_open, load)
        b == id_of(ctx.open_exec, load)
    IN  IF a.segv THEN "SIGSEGV"
        ELSE IF event = a.id THEN "read_path_trace"
        ELSE IF b.segv THEN "SIGSEGV"
        ELSE IF event = b.id THEN "read_path_trace"
        ELSE IF ctx.uselib # 0 /\ event = ctx.uselib THEN "read_path_trace"
        ELSE IF \/ ctx.filemap_fault.event # 0 /\ event = ctx.filemap_fault.event
                \/ ctx.filemap_get_pages.event # 0 /\ event = ctx.filemap_get_pages.event
                \/ ctx.filemap_map_pages.event # 0 /\ event = ctx.filemap_map_pages.event
             THEN "read_filemap_trace"
        ELSE "continue"

\* read_filemap_trace: the struct filemap_tep of the record's event, 0 when
\* the function returns 1 because no event has the id
filemap_tep_of(ctx, event, load) ==
    LET f == id_of(ctx.filemap_fault.event, load)
        g == id_of(ctx.filemap_get_pages.event, load)
        m == id_of(ctx.filemap_map_pages.event, load)
    IN  IF f.segv THEN "SIGSEGV"
        ELSE IF event = f.id THEN "fault"
        ELSE IF g.segv THEN "SIGSEGV"
        ELSE IF event = g.id THEN "get_pages"
        ELSE IF m.segv THEN "SIGSEGV"
        ELSE IF event = m.id THEN "map_pages"
        ELSE "none"

\* read_trace has not been called
NoContext == [do_sys_open |-> 0, open_exec |-> 0, uselib |-> 0,
              filemap_fault |-> [event |-> 0, last_index |-> FALSE],
              filemap_get_pages |-> [event |-> 0, last_index |-> FALSE],
              filemap_map_pages |-> [event |-> 0, last_index |-> FALSE]]

NoRecord == [event |-> 0, to |-> "", ret |-> 0, failure |-> FALSE]

InitDrain ==
    /\ EmptyIndex
    /\ EmptyPack
    /\ NoOptions
    /\ lastopen = NoOpen
    /\ fixrun = <<>>
    /\ force_ssd_mode = FALSE
    /\ env = <<>>
    /\ session = <<>>
    /\ held = <<>>
    /\ call = <<>>
    /\ context = NoContext
    /\ \E present \in SUBSET FilemapEvents :
          reader = [pc |-> "start", present |-> present, tep |-> "none",
                    hash |-> "none", records |-> 0, err |-> 0, last |-> NoRecord]

DrainFrame == UNCHANGED <<accessed, last, todo, force_ssd_mode, pc, wi, openvars,
                          env, session, held, call>>

\* read_trace up to tracefs_iterate_raw_events: the handle of the events is
\* made, the context is filled and the device hash is cleared
ReadTraceStart(ok) ==
    /\ reader.pc = "start"
    /\ IF ok
       THEN /\ context' = [do_sys_open |-> 0, open_exec |-> 0, uselib |-> 0,
                           filemap_fault |-> init_filemap_tep(reader.present, 4),
                           filemap_map_pages |-> init_filemap_tep(reader.present, 6),
                           filemap_get_pages |-> init_filemap_tep(reader.present, 5)]
            /\ reader' = [reader EXCEPT !.pc = "iterate", !.tep = "held", !.hash = "held"]
       ELSE /\ reader' = [reader EXCEPT !.pc = "returned", !.err = -1]
            /\ UNCHANGED context
    /\ UNCHANGED <<device_hash, files, path_hash, inode_hash, before>>
    /\ DrainFrame

\* the callback has returned ret for the record: the iteration goes on with
\* the next record when ret is 0 and is over when it is not
Called(event, to, ret, failure) ==
    [reader EXCEPT !.records = @ + 1,
                   !.pc = IF ret = 0 THEN "iterate" ELSE "intersect",
                   !.last = [event |-> event, to |-> to, ret |-> ret,
                             failure |-> failure]]

Iterating == reader.pc = "iterate" /\ reader.records < MaxRecords

\* the path names of the open records
DrainPaths == {<<"/", "a">>, <<"/", "n">>}

\* what the system can answer while trace_add_path handles the record: a
\* failure, or every page resident, or none
DrainAnswers(raw) ==
    {a \in Answers(raw) : a[1] = "ok" => a[2] \in {{}, 0..(NumPages(lstat(raw).st_size) - 1)}}

\* the filemap records: (s_dev, i_ino, index, last_index)
DrainRecords ==
    UNION {{<<t[1], t[2], 0, t[3]>>, <<t[1], t[2], t[3], t[3]>>} : t \in PackTargets}

\* a record that read_trace_cb gives to read_path_trace; a record of an
\* event without the field filename is left with a warning
IteratePath(event, load, raw, answer) ==
    /\ Iterating
    /\ read_trace_cb(context, event, load) = "read_path_trace"
    /\ IF event \in PathEvents
       THEN path_record(raw, answer[1], answer[2], answer[3])
       ELSE UNCHANGED <<files, path_hash, inode_hash>>
    /\ reader' = Called(event, "read_path_trace", 0,
                        event \notin PathEvents \/ answer[1] # "ok" \/ ~Exists(raw))
    /\ UNCHANGED <<device_hash, before, context>>
    /\ DrainFrame

\* a record that read_trace_cb gives to read_filemap_trace; a field that
\* cannot be read makes it return 1
IterateFilemap(event, load, t, readable) ==
    /\ Iterating
    /\ read_trace_cb(context, event, load) = "read_filemap_trace"
    /\ LET tep == filemap_tep_of(context, event, load)
           has_last == IF tep = "fault" THEN context.filemap_fault.last_index
                       ELSE IF tep = "get_pages" THEN context.filemap_get_pages.last_index
                       ELSE context.filemap_map_pages.last_index
       IN  IF tep = "SIGSEGV"
           THEN /\ reader' = [reader EXCEPT !.pc = "SIGSEGV", !.records = @ + 1,
                                 !.last = [event |-> event, to |-> "read_filemap_trace",
                                           ret |-> 0, failure |-> FALSE]]
                /\ UNCHANGED device_hash
           ELSE IF tep = "none" \/ ~readable
           THEN /\ reader' = Called(event, "read_filemap_trace", 1, TRUE)
                /\ UNCHANGED device_hash
           ELSE /\ reader' = Called(event, "read_filemap_trace", 0, FALSE)
                /\ device_hash' = trace_add_file_map(device_hash, decode_dev(t[1]), t[2], t[3],
                                                     IF has_last THEN t[4] ELSE t[3])
    /\ UNCHANGED <<files, path_hash, inode_hash, before, context>>
    /\ DrainFrame

\* a record that read_trace_cb gives to no function
IterateContinue(event, load) ==
    /\ Iterating
    /\ read_trace_cb(context, event, load) = "continue"
    /\ reader' = Called(event, "continue", 0, FALSE)
    /\ UNCHANGED <<device_hash, files, path_hash, inode_hash, before, context>>
    /\ DrainFrame

\* the read through the NULL pointer ends the process
IterateSegv(event, load) ==
    /\ Iterating
    /\ read_trace_cb(context, event, load) = "SIGSEGV"
    /\ reader' = [reader EXCEPT !.pc = "SIGSEGV", !.records = @ + 1,
                     !.last = [event |-> event, to |-> "SIGSEGV", ret |-> 0,
                               failure |-> FALSE]]
    /\ UNCHANGED <<device_hash, files, path_hash, inode_hash, before, context>>
    /\ DrainFrame

\* tracefs_iterate_raw_events returns after the last record, or it fails
\* and nih_return_system_error leaves read_trace
IterateEnd(ok) ==
    /\ reader.pc = "iterate"
    /\ reader' = IF ok THEN [reader EXCEPT !.pc = "intersect"]
                 ELSE [reader EXCEPT !.pc = "returned", !.err = -1]
    /\ UNCHANGED <<device_hash, files, path_hash, inode_hash, before, context>>
    /\ DrainFrame

\* read_trace: the range intersector runs when the three filemap events exist
ReadTraceIntersect ==
    /\ reader.pc = "intersect"
    /\ before' = files
    /\ files' = IF /\ context.filemap_fault.event # 0
                   /\ context.filemap_map_pages.event # 0
                   /\ context.filemap_get_pages.event # 0
                THEN [i \in 1..Len(files) |-> remove_untouched_blocks(device_hash, files[i])]
                ELSE files
    /\ reader' = [reader EXCEPT !.pc = "out"]
    /\ UNCHANGED <<device_hash, path_hash, inode_hash, context>>
    /\ DrainFrame

\* read_trace at out: the handle and the device hash are freed
ReadTraceOut ==
    /\ reader.pc = "out"
    /\ device_hash' = [b \in Buckets |-> <<>>]
    /\ reader' = [reader EXCEPT !.pc = "returned", !.tep = "freed", !.hash = "freed"]
    /\ UNCHANGED <<files, path_hash, inode_hash, before, context>>
    /\ DrainFrame

NextDrain ==
    \/ \E ok \in BOOLEAN : ReadTraceStart(ok)
    \/ \E event \in EventIds : \E load \in Loads(event) :
          \/ \E raw \in DrainPaths : \E answer \in DrainAnswers(raw) :
                IteratePath(event, load, raw, answer)
          \/ \E t \in DrainRecords : \E readable \in BOOLEAN :
                IterateFilemap(event, load, t, readable)
          \/ IterateContinue(event, load)
          \/ IterateSegv(event, load)
    \/ \E ok \in BOOLEAN : IterateEnd(ok)
    \/ ReadTraceIntersect
    \/ ReadTraceOut

SpecDrain == InitDrain /\ [][NextDrain]_vars

\* at least one and not all of the filemap events exist, or none does
SomeMissing == reader.present # FilemapEvents

(* C25: when a filemap event is missing, the drain is not ended by a crash  *)
(* or an error whatever the records are, the range intersector is not run, *)
(* and every blocks array stays as the assembler built it.                 *)
PartialFilemapDrains ==
    SomeMissing =>
        /\ reader.pc # "SIGSEGV"
        /\ reader.pc \in {"out", "returned"} /\ reader.tep # "none" /\ reader.err = 0
              => files = before

(* C26: every record of do_sys_open and open_exec (and of uselib when the  *)
(* event was found) is given to read_path_trace, every record of a filemap *)
(* event that was found to read_filemap_trace, every other record to       *)
(* neither with the status 0; no record makes the callback return a        *)
(* negative status.                                                        *)
RecordsDispatched ==
    reader.last.event # 0 =>
        /\ reader.last.event \in 1..NR_REQUIRED_EVENTS => reader.last.to = "read_path_trace"
        /\ reader.last.event \in reader.present => reader.last.to = "read_filemap_trace"
        /\ reader.last.event = OtherEvent =>
              reader.last.to = "continue" /\ reader.last.ret = 0
        /\ reader.last.ret >= 0
        /\ reader.pc # "SIGSEGV"

(* C27: a record whose handling meets a recoverable failure gets the       *)
(* status 0 from the callback and the iteration goes on with the next      *)
(* record.                                                                 *)
FailureContinues ==
    reader.last.failure => reader.last.ret = 0 /\ reader.pc = "iterate"

(* C29: whenever read_trace has returned after it made the handle of the   *)
(* events, the handle and the device hash have been freed.                 *)
ReadTraceReleases ==
    (reader.pc = "returned" /\ reader.tep # "none") =>
        reader.tep = "freed" /\ reader.hash = "freed"

----------------------------------------------------------------------------
(* Descriptors and mappings of the path handler                            *)
(*                                                                         *)
(* held.fds are the open descriptors of the process and held.maps its      *)
(* mappings of files; opened and mapped tell that open () and mmap () have  *)
(* succeeded at least once, failed is what failed for the last record.     *)

\* the system call that fails while a record is handled; "notreg" is fstat
\* finding that the path is no regular file any more
Failures == {"none", "lstat", "open", "fstat", "notreg", "mmap", "mincore"}

\* the outcome, as trace_add_path above takes it
OutcomeOf(failed) ==
    IF failed \in {"lstat", "open", "fstat", "notreg"} THEN "stat"
    ELSE IF failed \in {"mmap", "mincore"} THEN "mmap"
    ELSE "ok"

\* open () gives the lowest descriptor that is free
sys_open(h) ==
    LET fd == CHOOSE n \in 3..(3 + Cardinality(h.fds)) :
                  n \notin h.fds /\ \A m \in 3..(n - 1) : m \in h.fds
    IN [h EXCEPT !.fds = @ \cup {fd}, !.opened = TRUE, !.fd = fd]

\* faulty variant: the descriptor stays open
sys_close_nothing(h, fd) == h

sys_close(h, fd) == [h EXCEPT !.fds = @ \ {fd}]

sys_mmap(h, fd) == [h EXCEPT !.maps = @ \cup {fd}, !.mapped = TRUE]

sys_munmap(h, buf) == [h EXCEPT !.maps = @ \ {buf}]

\* trace_add_chunks: the file is mapped, mincore is asked, the file is unmapped
trace_add_chunks_maps(h, fd, failed) ==
    IF failed = "mmap"
    THEN h
    ELSE LET m == sys_mmap(h, fd)
         IN IF failed = "mincore"
            THEN sys_munmap(m, fd)
            ELSE sys_munmap(m, fd)

\* trace_add_path: what it leaves of the descriptors and mappings; st is the
\* record of files, path_hash and inode_hash
trace_add_path_fds(h, st, pathname, failed) ==
    IF \/ pathname = <<>>
       \/ pathname[1] # "/"
       \/ ignore_path(pathname)
       \/ Len(pathname) > PACK_PATH_MAX
       \/ pathname \in st.path_hash
    THEN h
    ELSE IF failed = "lstat" \/ ~Exists(pathname) \/ ~lstat(pathname).reg
    THEN h
    ELSE IF failed = "open"
    THEN h
    ELSE LET o == sys_open(h)
             statbuf == lstat(pathname)
         IN IF failed = "fstat"
            THEN sys_close(o, o.fd)
            ELSE IF failed = "notreg"
            THEN sys_close(o, o.fd)
            ELSE IF <<statbuf.st_dev, statbuf.st_ino>> \in st.inode_hash
            THEN sys_close(o, o.fd)
            ELSE IF statbuf.st_size = 0
            THEN sys_close(o, o.fd)
            ELSE sys_close(trace_add_chunks_maps(o, o.fd, failed), o.fd)

\* the path names of the open records: two links to one inode, an empty
\* file, a file of several pages and a name that does not exist
HandlePaths == {<<"/", "b">>, <<"/", "c">>, <<"/", "e">>, <<"/", "a">>, <<"/", "n">>}

InitHandle ==
    /\ EmptyIndex
    /\ EmptyPack
    /\ NoOptions
    /\ lastopen = NoOpen
    /\ fixrun = <<>>
    /\ force_ssd_mode = FALSE
    /\ env = <<>>
    /\ session = <<>>
    /\ context = <<>>
    /\ reader = <<>>
    /\ call = <<>>
    /\ held = [fds |-> {}, maps |-> {}, fd |-> -1, opened |-> FALSE, mapped |-> FALSE,
               failed |-> "none", path |-> <<>>]

\* read_path_trace for one record, with the descriptors and mappings
HandleRecord(raw, failed, vec, extents) ==
    /\ pc = "drain"
    /\ path_record(raw, OutcomeOf(failed), vec, extents)
    /\ Cardinality(path_hash') <= MaxOpens
    /\ LET path == traced_path(raw, path_prefix_filter, path_prefix)
           st == [files |-> files, path_hash |-> path_hash, inode_hash |-> inode_hash]
           h == [held EXCEPT !.opened = FALSE, !.mapped = FALSE]
       IN held' = [trace_add_path_fds(h, st, path, failed) EXCEPT
                      !.failed = failed, !.path = raw]
    /\ UNCHANGED <<force_ssd_mode, pc, wi, before, openvars, env, session, context, reader,
                   call>>
    /\ UNCHANGED indexvars

\* what mincore and FIEMAP can report when nothing fails
HandleAnswers(raw, failed) ==
    IF failed = "none" /\ Exists(raw)
    THEN {<<vec, extents>> : vec \in {{}, 0..(NumPages(lstat(raw).st_size) - 1)},
                            extents \in Layouts(lstat(raw).st_ino)}
    ELSE {<<{}, <<>>>>}

NextHandle ==
    \E raw \in HandlePaths : \E failed \in Failures : \E a \in HandleAnswers(raw, failed) :
        HandleRecord(raw, failed, a[1], a[2])

SpecHandle == InitHandle /\ [][NextHandle]_vars

----------------------------------------------------------------------------
\* the blocks of the file are in the order of their paths and, inside one
\* path, in the order of their offsets without meeting each other
BlocksInOrder(file) ==
    \A k, l \in 1..Len(file.blocks) :
        k < l =>
            /\ file.blocks[k].pathidx <= file.blocks[l].pathidx
            /\ file.blocks[k].pathidx = file.blocks[l].pathidx =>
                  /\ file.blocks[k].offset < file.blocks[l].offset
                  /\ file.blocks[k].offset + file.blocks[k].length <= file.blocks[l].offset

(* C30: while the records are drained and after the range intersector,    *)
(* before anything is sorted, in every PackFile pathidx does not decrease  *)
(* along blocks[], so the blocks of one path are next to each other, and   *)
(* the blocks of one path have ascending offsets and do not overlap.       *)
AssembledInOrder ==
    pc \in {"drain", "intersected"} => \A f \in 1..Len(files) : BlocksInOrder(files[f])

\* the intersector has changed a PackFile that has two blocks of one path
\* and blocks of two paths
AssembledInOrderWitness ==
    /\ pc = "intersected"
    /\ files # before
    /\ \E f \in 1..Len(files) : \E k, l, m \in 1..Len(files[f].blocks) :
          /\ k < l
          /\ files[f].blocks[k].pathidx = files[f].blocks[l].pathidx
          /\ files[f].blocks[m].pathidx # files[f].blocks[k].pathidx

----------------------------------------------------------------------------
(* Functions of the assembler and of the post-processing called on their   *)
(* own: call holds the name of the function and its arguments, and, once   *)
(* done, what the function made of them.                                   *)

\* pages of the files the residency scan is called for
MaxScanPages == 4

\* a PackFile with one path and no block
OnePathFile(rotational) ==
    [dev |-> DiskDev, rotational |-> rotational,
     paths |-> <<[group |-> -1, ino |-> 2, path |-> <<"/", "a">>]>>,
     blocks |-> <<>>, groups |-> <<>>]

\* the sizes of the files and what mincore reports for them
ScanCalls ==
    UNION {{[fn |-> "trace_add_chunks", size |-> size, vec |-> vec,
             done |-> FALSE, blocks |-> <<>>] :
               size \in {(n - 1) * PAGE_SIZE + 1, n * PAGE_SIZE}, vec \in SUBSET (0..(n - 1))} :
           n \in 1..MaxScanPages}

\* trace_add_chunks for a file that is not rotational: the chunks are the blocks
CallAddChunks ==
    /\ call.fn = "trace_add_chunks"
    /\ ~call.done
    /\ call' = [call EXCEPT !.done = TRUE,
                            !.blocks = trace_add_chunks(OnePathFile(FALSE), call.size,
                                                        call.vec, <<>>).blocks]
    /\ UNCHANGED <<indexvars, files, path_hash, inode_hash, force_ssd_mode, pc, wi, before,
                   openvars, env, session, context, reader, held>>

\* the pages of the block
PagesOfBlock(b) == {p \in 0..MaxScanPages : b.offset <= p * PAGE_SIZE /\ p * PAGE_SIZE < b.offset + b.length}

(* C31: the chunks the residency scan makes of the mincore vector start    *)
(* and end on page boundaries, ascend, have an absent page between one     *)
(* and the next, and hold a page exactly when its vector byte is not zero. *)
ChunksAreRuns ==
    (call.fn = "trace_add_chunks" /\ call.done) =>
        /\ \A k \in 1..Len(call.blocks) :
              /\ call.blocks[k].offset % PAGE_SIZE = 0
              /\ call.blocks[k].length % PAGE_SIZE = 0
              /\ call.blocks[k].length > 0
        /\ \A k \in 1..(Len(call.blocks) - 1) :
              call.blocks[k].offset + call.blocks[k].length + PAGE_SIZE
                  <= call.blocks[k + 1].offset
        /\ \A p \in 0..MaxScanPages :
              p \in call.vec <=> \E k \in 1..Len(call.blocks) : p \in PagesOfBlock(call.blocks[k])

\* the vector has a run of two pages, an absent page and another present page
ChunksAreRunsWitness ==
    /\ call.fn = "trace_add_chunks"
    /\ call.done
    /\ call.vec = {0, 1, 3}
    /\ Len(call.blocks) = 2

\* pages of the files trace_add_extents is called for
MaxExtentPages == 2

\* the file in units of a file system block
ExtentUnits == (MaxExtentPages * PAGE_SIZE) \div FsBlock

\* extent j of a file, from unit lo to unit hi
Extent(j, lo, hi, kind) ==
    [fe_logical |-> lo * FsBlock, fe_length |-> (hi - lo) * FsBlock,
     fe_physical |-> (40 - 12 * j) * FsBlock, unknown |-> kind = "unknown"]

\* the extent maps of a file: up to three extents one after the other, each
\* with a known address, flagged FIEMAP_EXTENT_UNKNOWN, or a hole
ExtentMaps ==
    {LET all == <<[lo |-> 0, hi |-> c1, kind |-> kinds[1]],
                  [lo |-> c1, hi |-> nih_max(c1, c2), kind |-> kinds[2]],
                  [lo |-> nih_max(c1, c2), hi |-> ExtentUnits, kind |-> kinds[3]]>>
         there == SelectSeq(all, LAMBDA x : x.lo < x.hi /\ x.kind # "hole")
     IN [j \in 1..Len(there) |-> Extent(j, there[j].lo, there[j].hi, there[j].kind)] :
        c1 \in 1..ExtentUnits, c2 \in 1..ExtentUnits,
        kinds \in [1..3 -> {"known", "unknown", "hole"}]}

\* the chunks of the file and the extent maps FS_IOC_FIEMAP can report
ExtentCalls ==
    {[fn |-> "trace_add_extents", offset |-> first * PAGE_SIZE,
      length |-> pages * PAGE_SIZE, extents |-> extents,
      done |-> FALSE, blocks |-> <<>>] :
        first \in 0..(MaxExtentPages - 1), pages \in 1..MaxExtentPages,
        extents \in ExtentMaps}

\* trace_add_extents for one chunk of a file that is rotational
CallAddExtents ==
    /\ call.fn = "trace_add_extents"
    /\ ~call.done
    /\ call.offset + call.length <= MaxExtentPages * PAGE_SIZE
    /\ call' = [call EXCEPT !.done = TRUE,
                            !.blocks = trace_add_extents(OnePathFile(TRUE), call.extents,
                                                         call.offset, call.length).blocks]
    /\ UNCHANGED <<indexvars, files, path_hash, inode_hash, force_ssd_mode, pc, wi, before,
                   openvars, env, session, context, reader, held>>

\* the block is what the chunk of the call and the extent have in common
IsIntersection(b, e) ==
    /\ b.offset = nih_max(call.offset, e.fe_logical)
    /\ b.offset + b.length = nih_min(call.offset + call.length, e.fe_logical + e.fe_length)
    /\ call.offset <= b.offset
    /\ b.offset + b.length <= call.offset + call.length
    /\ e.fe_logical <= b.offset
    /\ b.offset + b.length <= e.fe_logical + e.fe_length
    /\ b.length > 0
    /\ b.physical = e.fe_physical + (b.offset - e.fe_logical)

(* C32: every block trace_add_extents appends for a chunk is what the      *)
(* chunk and one extent without FIEMAP_EXTENT_UNKNOWN have in common, with *)
(* a length above 0 and physical = fe_physical + (offset - fe_logical);    *)
(* every such extent that meets the chunk gives one block, and no block    *)
(* reaches into an extent flagged UNKNOWN.                                 *)
ExtentBlocks ==
    (call.fn = "trace_add_extents" /\ call.done) =>
        LET known == {j \in 1..Len(call.extents) :
                         /\ ~call.extents[j].unknown
                         /\ call.extents[j].fe_logical < call.offset + call.length
                         /\ call.offset < call.extents[j].fe_logical + call.extents[j].fe_length}
        IN /\ \A k \in 1..Len(call.blocks) :
                 \E j \in known : IsIntersection(call.blocks[k], call.extents[j])
           /\ Len(call.blocks) = Cardinality(known)
           /\ \A k \in 1..Len(call.blocks) : \A j \in 1..Len(call.extents) :
                 call.extents[j].unknown =>
                    \/ call.blocks[k].offset + call.blocks[k].length <= call.extents[j].fe_logical
                    \/ call.extents[j].fe_logical + call.extents[j].fe_length
                           <= call.blocks[k].offset

\* the chunk meets an extent with a known address in part, and an extent
\* flagged UNKNOWN
ExtentBlocksWitness ==
    /\ call.fn = "trace_add_extents"
    /\ call.done
    /\ Len(call.blocks) = 1
    /\ call.blocks[1].length < call.length
    /\ \E j \in 1..Len(call.extents) :
          /\ call.extents[j].unknown
          /\ call.extents[j].fe_logical < call.offset + call.length
          /\ call.offset < call.extents[j].fe_logical + call.extents[j].fe_length

----------------------------------------------------------------------------
(* trace_add_groups called on a PackFile as trace_add_path leaves it       *)

\* the most paths of one inode group
MaxGroupPaths == 9

\* the paths of a PackFile that has count[g] paths in the inode group g,
\* those of the last group first
RECURSIVE GroupPaths(_, _)
GroupPaths(count, g) ==
    IF g < 0 THEN <<>>
    ELSE GroupPaths(count, g - 1)
         \o [k \in 1..count[g] |->
               [group |-> -1,
                ino |-> g * InodesPerGroup + 1 + (k % InodesPerGroup),
                path |-> <<"/">> \o [c \in 1..(g + 1) |-> "a"] \o [c \in 1..k |-> "b"]]]

Reverse(seq) == [k \in 1..Len(seq) |-> seq[Len(seq) + 1 - k]]

GroupCalls ==
    {[fn |-> "trace_add_groups", count |-> count, opened |-> opened, done |-> FALSE,
      file |-> [dev |-> DiskDev, rotational |-> TRUE,
                paths |-> Reverse(GroupPaths(count, NumGroups - 1)),
                blocks |-> <<>>, groups |-> <<>>]] :
        count \in [0..(NumGroups - 1) -> 0..MaxGroupPaths], opened \in BOOLEAN}

CallAddGroups ==
    /\ call.fn = "trace_add_groups"
    /\ ~call.done
    /\ call' = [call EXCEPT !.done = TRUE,
                            !.file = trace_add_groups(call.file, call.opened)]
    /\ UNCHANGED <<indexvars, files, path_hash, inode_hash, force_ssd_mode, pc, wi, before,
                   openvars, env, session, context, reader, held>>

(* C34: after trace_add_groups on a device that opens as an ext file       *)
(* system, a group is in groups exactly if more than 8 paths of the        *)
(* PackFile are in it, groups ascends without duplicates and every path    *)
(* has the group of its inode; on a device that does not open, groups is   *)
(* empty and every path has group -1.                                      *)
GroupsOverThreshold ==
    (call.fn = "trace_add_groups" /\ call.done) =>
        LET file == call.file
        IN IF call.opened
           THEN /\ \A g \in 0..(NumGroups - 1) :
                      (\E k \in 1..Len(file.groups) : file.groups[k] = g)
                          <=> call.count[g] > 8
                /\ \A k \in 1..Len(file.groups) : file.groups[k] \in 0..(NumGroups - 1)
                /\ \A k, l \in 1..Len(file.groups) : k < l => file.groups[k] < file.groups[l]
                /\ \A i \in 1..Len(file.paths) :
                      /\ file.paths[i].group \in 0..(NumGroups - 1)
                      /\ call.count[file.paths[i].group] > 0
                      /\ file.paths[i].group = (file.paths[i].ino - 1) \div InodesPerGroup
           ELSE /\ file.groups = <<>>
                /\ \A i \in 1..Len(file.paths) : file.paths[i].group = -1

\* one group has 8 paths and is not listed, another has 9 and is listed
GroupsOverThresholdWitness ==
    /\ call.fn = "trace_add_groups"
    /\ call.done
    /\ call.opened
    /\ \E g, h \in 0..(NumGroups - 1) :
          /\ call.count[g] = 8
          /\ call.count[h] = 9
          /\ call.file.groups = <<h>>

----------------------------------------------------------------------------
(* trace_file called for the devices of a sequence of registered files     *)

\* the most calls of trace_file in a sequence
MaxFileCalls == 4

FileDevs == {DiskDev, SsdDev, TmpDev}

\* made[dev] is the rotational flag the PackFile of dev was created with
FileCalls ==
    {[fn |-> "trace_file", force_ssd_mode |-> force, files |-> <<>>, n |-> 0,
      made |-> [dev \in {} |-> FALSE]] : force \in BOOLEAN}

CallTraceFile(dev) ==
    /\ call.fn = "trace_file"
    /\ call.n < MaxFileCalls
    /\ LET fs == trace_file(call.files, dev, call.force_ssd_mode)
           f == file_of_dev(fs, dev, 1)
       IN call' = [call EXCEPT !.n = @ + 1,
                               !.files = fs,
                               !.made = IF Len(fs) > Len(call.files)
                                        THEN [d \in DOMAIN @ \cup {fs[Len(fs)].dev} |->
                                                 IF d \in DOMAIN @ THEN @[d]
                                                 ELSE fs[Len(fs)].rotational]
                                        ELSE @]
    /\ UNCHANGED <<indexvars, files, path_hash, inode_hash, force_ssd_mode, pc, wi, before,
                   openvars, env, session, context, reader, held>>

(* C35: after any sequence of trace_file calls there is one PackFile for   *)
(* every device asked for and no second one for any device, and the        *)
(* rotational flag of each is the one it was created with: false under the *)
(* force flag, else the value of the sysfs attribute, and true when the    *)
(* attribute cannot be read.                                               *)
OneFilePerDevice ==
    call.fn = "trace_file" =>
        /\ \A i, j \in 1..Len(call.files) :
              call.files[i].dev = call.files[j].dev => i = j
        /\ {call.files[i].dev : i \in 1..Len(call.files)} = DOMAIN call.made
        /\ \A i \in 1..Len(call.files) :
              LET dev == call.files[i].dev
              IN /\ call.files[i].rotational = call.made[dev]
                 /\ call.made[dev] = IF call.force_ssd_mode THEN FALSE
                                     ELSE IF dev = SsdDev THEN FALSE
                                     ELSE TRUE

\* a device is asked for again after another one, with a disk, a solid state
\* disk and a device without the attribute among them and no force flag
OneFilePerDeviceWitness ==
    /\ call.fn = "trace_file"
    /\ ~call.force_ssd_mode
    /\ call.n > Len(call.files)
    /\ Len(call.files) = 3
    /\ \E i, j \in 1..3 : call.files[i].rotational /\ ~call.files[j].rotational

----------------------------------------------------------------------------
(* trace_add_file_map called for the inodes of several devices             *)

\* the inode numbers of the first device are 1..MaxInos
MaxInos == 4

\* the devices (8,0) and (264,0) share a bucket, (259,0) has its own
IndexDevs == DevIds \cup {SsdDev}

\* the (dev_t, ino) pairs the calls name
IndexTargets ==
    ({DiskDev} \X (1..MaxInos)) \cup ({OtherDev} \X {1, 2}) \cup {<<SsdDev, 1>>}

\* recorded is the set of pairs the calls so far have named, last the pair of
\* the last call and grew whether it added an inode record
IndexCalls ==
    {[fn |-> "trace_add_file_map",
      device_hash |-> [b \in {HashKey(id) : id \in IndexDevs} |-> <<>>],
      recorded |-> {}, last |-> <<>>, grew |-> FALSE]}

CallAddFileMap(dev_id, ino) ==
    /\ call.fn = "trace_add_file_map"
    /\ call' = [call EXCEPT !.device_hash = trace_add_file_map(@, dev_id, ino, 0, 0),
                            !.recorded = @ \cup {<<dev_id, ino>>},
                            !.last = <<dev_id, ino>>,
                            !.grew = <<dev_id, ino>> \notin call.recorded]
    /\ UNCHANGED <<indexvars, files, path_hash, inode_hash, force_ssd_mode, pc, wi, before,
                   openvars, env, session, context, reader, held>>

\* the inode array of the device record find_device returns, <<>> for NULL
InodesOf(hash, id) ==
    IF find_device(hash, id) = 0 THEN <<>>
    ELSE hash[HashKey(id)][find_device(hash, id)].inodes

(* C37: after any sequence of calls the device hash has one device record  *)
(* for every dev_t a call named and none else, each in the chain of its    *)
(* bucket, also when two dev_t share the bucket; the inode array of every  *)
(* device ascends strictly; find_device returns a record exactly for the   *)
(* dev_t named and find_inode exactly for the (dev_t, ino) pairs named,    *)
(* and they return the record of that dev_t and that ino.                  *)
IndexExact ==
    call.fn = "trace_add_file_map" =>
        LET hash == call.device_hash
        IN /\ \A b \in DOMAIN hash : \A k, l \in 1..Len(hash[b]) :
                 /\ HashKey(hash[b][k].id) = b
                 /\ hash[b][k].id = hash[b][l].id => k = l
           /\ {hash[b][k].id : <<b, k>> \in {t \in (DOMAIN hash) \X (1..Cardinality(IndexDevs)) :
                                                t[2] <= Len(hash[t[1]])}}
                 = {t[1] : t \in call.recorded}
           /\ \A b \in DOMAIN hash : \A k \in 1..Len(hash[b]) :
                 \A i, j \in 1..Len(hash[b][k].inodes) :
                    i < j => hash[b][k].inodes[i].inode < hash[b][k].inodes[j].inode
           /\ \A id \in IndexDevs :
                 /\ find_device(hash, id) # 0 <=> \E t \in call.recorded : t[1] = id
                 /\ find_device(hash, id) # 0 => hash[HashKey(id)][find_device(hash, id)].id = id
                 /\ \A ino \in 1..(MaxInos + 1) :
                       LET inodes == InodesOf(hash, id)
                       IN /\ find_inode(inodes, ino) # 0 <=> <<id, ino>> \in call.recorded
                          /\ find_inode(inodes, ino) # 0 =>
                                inodes[find_inode(inodes, ino)].inode = ino

\* the last call put an inode between two of at least three that the device
\* had, and the other device of the bucket is recorded as well
IndexExactWitness ==
    /\ call.fn = "trace_add_file_map"
    /\ call.grew
    /\ call.last = <<DiskDev, 2>>
    /\ Len(InodesOf(call.device_hash, DiskDev)) = MaxInos
    /\ Len(call.device_hash[HashKey(DiskDev)]) = 2
    /\ Len(InodesOf(call.device_hash, OtherDev)) = 2

InitCall ==
    /\ EmptyIndex
    /\ EmptyPack
    /\ NoOptions
    /\ lastopen = NoOpen
    /\ fixrun = <<>>
    /\ force_ssd_mode = FALSE
    /\ env = <<>>
    /\ session = <<>>
    /\ context = <<>>
    /\ reader = <<>>
    /\ held = <<>>
    /\ call \in ScanCalls \cup ExtentCalls \cup GroupCalls \cup FileCalls \cup IndexCalls

NextCall ==
    \/ CallAddChunks
    \/ CallAddExtents
    \/ CallAddGroups
    \/ \E dev \in FileDevs : CallTraceFile(dev)
    \/ \E t \in IndexTargets : CallAddFileMap(t[1], t[2])

SpecCall == InitCall /\ [][NextCall]_vars

----------------------------------------------------------------------------
\* the number of places of the blocks array that hold the block
BlockCount(file, b) == Cardinality({k \in 1..Len(file.blocks) : file.blocks[k] = b})

(* C33: the step of trace_sort_blocks leaves in blocks[] the blocks that   *)
(* were there, each as often as before, and in an order in which physical  *)
(* does not decrease, so that the markers with physical 0 come before      *)
(* every block with a larger physical.                                     *)
SortBlocksSorts ==
    [][pc = "sort_blocks" =>
         LET old == files[wi]
             new == files'[wi]
         IN /\ Len(new.blocks) = Len(old.blocks)
            /\ \A k \in 1..Len(old.blocks) :
                  BlockCount(new, old.blocks[k]) = BlockCount(old, old.blocks[k])
            /\ \A k, l \in 1..Len(new.blocks) :
                  k < l => new.blocks[k].physical <= new.blocks[l].physical
            /\ new.rotational]_vars

\* the block sort has moved a block of a later path in front of a block of
\* an earlier path, and a marker is in the array
SortBlocksSortsWitness ==
    /\ pc = "sort_paths"
    /\ \E k, l \in 1..Len(files[wi].blocks) :
          /\ k < l
          /\ files[wi].blocks[k].pathidx > files[wi].blocks[l].pathidx
          /\ files[wi].blocks[k].physical < files[wi].blocks[l].physical
    /\ \E k \in 1..Len(files[wi].blocks) :
          files[wi].blocks[k].length = 0 /\ files[wi].blocks[k].physical = 0

----------------------------------------------------------------------------
(* SpecWrite: the write loop of trace () over the PackFiles of several     *)
(* devices, from the return of read_trace to return 0                      *)

\* the most PackFiles in the array
MaxWriteFiles == 2

WriteDevs == {DiskDev, OtherDev, SsdDev}

\* the mount point of the device
MountPoint(dev) ==
    IF dev = DiskDev THEN <<>>
    ELSE IF dev = OtherDev THEN <<"/", "m">>
    ELSE <<"/", "h">>

\* the PackFile of a device as trace_file and trace_add_path leave it for
\* two files of one resident page each, the second of them at the lower
\* inode number and the lower physical address
AssembledFile(dev, force_ssd) ==
    LET file == trace_file(<<>>, dev, force_ssd)[1]
    IN [file EXCEPT
          !.paths = <<[group |-> -1, ino |-> 2, path |-> MountPoint(dev) \o <<"/", "a">>],
                      [group |-> -1, ino |-> 1, path |-> MountPoint(dev) \o <<"/", "b">>]>>,
          !.blocks = <<[pathidx |-> 0, offset |-> 0, length |-> PAGE_SIZE,
                        physical |-> IF file.rotational THEN 16 * PAGE_SIZE ELSE -1],
                       [pathidx |-> 1, offset |-> 0, length |-> PAGE_SIZE,
                        physical |-> IF file.rotational THEN 12 * PAGE_SIZE ELSE -1]>>]

\* the PackFile arrays: the devices in the order their first file was opened
WriteFiles(force_ssd) ==
    {[i \in 1..Len(devs) |-> AssembledFile(devs[i], force_ssd)] :
        devs \in {d \in UNION {[1..n -> WriteDevs] : n \in 0..MaxWriteFiles} :
                     \A i, j \in 1..Len(d) : d[i] = d[j] => i = j}}

InitWrite ==
    /\ EmptyIndex
    /\ NoOptions
    /\ lastopen = NoOpen
    /\ fixrun = <<>>
    /\ env = <<>>
    /\ session = <<>>
    /\ context = <<>>
    /\ reader = <<>>
    /\ held = <<>>
    /\ force_ssd_mode \in BOOLEAN
    /\ files \in WriteFiles(force_ssd_mode)
    /\ before = files
    /\ path_hash = UNION {{files[i].paths[k].path : k \in 1..Len(files[i].paths)} :
                             i \in 1..Len(files)}
    /\ inode_hash = UNION {{<<files[i].dev, files[i].paths[k].ino>> :
                               k \in 1..Len(files[i].paths)} : i \in 1..Len(files)}
    /\ pc = "next"
    /\ wi = 1
    /\ call \in TraceArgs

NextWrite ==
    \/ \E resolved \in BOOLEAN : SkipPack(resolved)
    \/ \E opened \in BOOLEAN : TraceAddGroups(opened)
    \/ TraceSortBlocks
    \/ TraceSortPaths
    \/ WritePack
    \/ TraceReturn

SpecWrite == InitWrite /\ [][NextWrite]_vars

\* the steps the loop has logged for the PackFile at i, in their order
StepsOf(i) ==
    LET steps == SelectSeq(call.log, LAMBDA e : e.i = i)
    IN [k \in 1..Len(steps) |-> steps[k].step]

\* the loop has gone past the PackFile at i
Finished(i) == i < wi \/ pc = "done"

\* the PackFile at i was handed to write_pack once: after the group list,
\* the block sort and the path sort in this order when it is rotational, and
\* with its blocks in the order of physical then
HandedOnce(i) ==
    /\ StepsOf(i) = IF files[i].rotational
                    THEN <<"trace_add_groups", "trace_sort_blocks", "trace_sort_paths",
                           "write_pack">>
                    ELSE <<"write_pack">>
    /\ files[i].rotational =>
          \A k, l \in 1..Len(files[i].blocks) :
             k < l => files[i].blocks[k].physical <= files[i].blocks[l].physical

(* C36 as stated: every PackFile the write loop has gone past was handed   *)
(* to write_pack once, after its post-processing, or was left out with a   *)
(* warning because no pack file name was found for its device.             *)
OnlyUnresolvedSkipped ==
    \A i \in 1..Len(files) :
       Finished(i) => \/ HandedOnce(i)
                      \/ StepsOf(i) = <<"warn">>

(* C36, amended: every PackFile the write loop has gone past was handed to *)
(* write_pack once, after its post-processing, or was left out with a      *)
(* warning because no name was found for its device, or was left out       *)
(* because its name is not the file to replace; the last two only without  *)
(* --pack-file. When trace () returns the loop has gone past every         *)
(* PackFile.                                                               *)
HandedOnceOrSkipped ==
    /\ \A i \in 1..Len(files) :
          Finished(i) =>
             \/ /\ HandedOnce(i)
                /\ \/ call.pack_file # NULL
                   \/ call.filename_to_replace \in {NULL, PackName(files[i].dev)}
             \/ /\ StepsOf(i) = <<"warn">>
                /\ call.pack_file = NULL
             \/ /\ StepsOf(i) = <<"skipping">>
                /\ call.pack_file = NULL
                /\ call.filename_to_replace \notin {NULL, PackName(files[i].dev)}
    /\ \A k \in 1..Len(call.log) : call.log[k].i \in 1..Len(files) /\ call.log[k].i <= wi
    /\ pc = "done" => wi = Len(files) + 1

\* trace () has returned: the first PackFile was left out with a warning, the
\* second, a rotational one whose blocks the sort had to move, was written
HandedOnceOrSkippedWitness ==
    /\ pc = "done"
    /\ Len(files) = 2
    /\ StepsOf(1) = <<"warn">>
    /\ files[2].rotational
    /\ HandedOnce(2)
    /\ before[2].blocks # files[2].blocks

----------------------------------------------------------------------------
(* C38: when trace () returns -1 from fork, from tracefs_trace_off or from *)
(* read_trace, every CPU has the ring-buffer size of the entry and no      *)
(* event is enabled that was not enabled at the entry (taken for the       *)
(* sessions that found every CPU with the same size).                      *)
FailureRestores ==
    (session.pc = "failed" /\ session.at \in {"fork", "trace_off", "read_trace"} /\ SameSizes) =>
        /\ \A c \in Cpus : env.buffer_size_kb[c] = session.entry.buffer_size_kb[c]
        /\ env.enabled \subseteq session.entry.enabled

----------------------------------------------------------------------------
(* C39: after the range intersector every path that had a block before it *)
(* has a block, a trimmed one or the marker.                               *)
PathKeepsBlock ==
    pc = "intersected" =>
        \A i \in 1..Len(files) : \A p \in 0..(Len(files[i].paths) - 1) :
           (\E k \in 1..Len(before[i].blocks) : before[i].blocks[k].pathidx = p)
               => \E k \in 1..Len(files[i].blocks) : files[i].blocks[k].pathidx = p

----------------------------------------------------------------------------
(* C40: in every state of the device hash between two records, every       *)
(* device record has an inode record and every inode record has a range,   *)
(* so that each array has been allocated with the element before it that   *)
(* free_device steps back to.                                              *)
NoEmptyRecord ==
    \A b \in Buckets : \A d \in 1..Len(device_hash[b]) :
       /\ Len(device_hash[b][d].inodes) >= 1
       /\ \A k \in 1..Len(device_hash[b][d].inodes) :
             Len(device_hash[b][d].inodes[k].map) >= 1

\* the last record met two ranges or more and left the inode with one range,
\* and the bucket holds two devices, one of them with two inodes
NoEmptyRecordWitness ==
    /\ last.run >= 2
    /\ \E b \in Buckets :
          /\ Len(device_hash[b]) = 2
          /\ \E d \in 1..2 :
                /\ Len(device_hash[b][d].inodes) = 2
                /\ \E k \in 1..2 : /\ Len(device_hash[b][d].inodes[k].map) = 1
                                   /\ device_hash[b][d].inodes[k].map[1].end
                                         - device_hash[b][d].inodes[k].map[1].start >= 3

====
